---- MODULE Spec2Model ----
(***************************************************************************)
(* porterminal: the session registry (session.py), the replay buffer of a *)
(* TerminalSession, the /ws endpoint (app.py) and the teardown of the      *)
(* session handler (websocket/handler.py), as an asyncio program: every    *)
(* action below is one run of a task from one suspension point (a real     *)
(* await) to the next.                                                     *)
(***************************************************************************)
EXTENDS Integers, Sequences, FiniteSets, TLC

(*************************** bounds of the model ***************************)
\* Connections (WebSocket objects) ever opened; each one creates or reconnects
\* once, so this also bounds the session ids ever allocated.
MaxSockets == 3
\* Chunks the PTY pumps of the registry specification read in total.
MaxReads == 1
\* add_to_buffer calls of the replay-buffer specification.
MaxAppends == 4
\* Seconds the loop clock runs for, and acquire calls, in the rate-limiter
\* specification.
MaxNow == 2
MaxAcquires == 3
\* write calls of the output-buffer specification.
MaxWrites == 3
\* Input messages a client sends in the input specification.
MaxInputs == 3
\* Chunks the PTY pump of the handler specification reads, and pings its
\* heartbeat sends.
MaxPumped == 2
MaxPings == 1

(********** program constants, scaled down so the caps are reached **********)
\* session.py:26 sets 10, session.py:27 sets 100, session.py:30 sets 1_000_000.
MAX_SESSIONS_PER_USER == 1
MAX_TOTAL_SESSIONS == 2
OUTPUT_BUFFER_MAX_BYTES == 6
\* rate_limiter.py:6 sets 100 (tokens per second), rate_limiter.py:7 sets 500.
DEFAULT_RATE == 1
DEFAULT_BURST == 3
\* buffer.py:43 sends chunks of at most 64 bytes at once.
IMMEDIATE_MAX == 2
\* handler.py:21 sets 4096 (more than the default burst, as here).
MAX_INPUT_SIZE == 4
\* handler.py:20 sets 300 (seconds).
HEARTBEAT_TIMEOUT_SECONDS == 1

\* Close codes: the server's default, and those of session.py:251, app.py:225,
\* app.py:270 and app.py:279.
CODE_DEFAULT == 1000
CODE_SUPERSEDED == 4000
CODE_NOT_FOUND == 4004
CODE_LIMIT == 4005
CODE_INTERNAL == 1011

Users == {"u1", "u2", "u3"}
UserOrder == <<"u1", "u2", "u3">>
Sockets == 1..MaxSockets
SessionIds == 1..MaxSockets
None == 0

\* ESC [ 2 J, the erase-entire-display sequence (session.py:57).
ED2 == <<27, 91, 50, 74>>
\* cols and rows of a PTY nobody has resized (handlers.py:83-84, pty/fake.py:22-23).
DEFAULT_SIZE == <<120, 30>>
\* ESC [ 2 J ESC [ H, sent before a replay (handler.py:120).
CLEAR_HOME == <<27, 91, 50, 74, 27, 91, 72>>
\* Chunks handed to add_to_buffer in the replay-buffer specification: empty,
\* short, ESC[2J alone, inside a chunk, cut short, and chunks longer than the cap.
Chunks ==
  { <<>>, <<65>>, <<66, 67>>, <<65, 66, 67>>,
    ED2, <<27, 91, 50, 74, 98>>, <<65, 27, 91, 50, 74>>, <<27, 91, 50>>,
    <<65, 65, 65, 65, 65, 65, 65, 65>>, <<65, 65, 65, 65, 27, 91, 50, 74>> }
\* Chunks the PTY pump reads in the registry specification (never empty:
\* handler.py:75).
PtyChunks == { <<65, 66>> }

VARIABLES
  sessions,            \* keys of SessionRegistry._sessions
  user_sessions,       \* SessionRegistry._user_sessions: user -> set of ids
  running,             \* SessionRegistry._running
  next_id,             \* ordinal of the next uuid4 session id
  user_id,             \* TerminalSession.user_id, per session object
  websocket,           \* TerminalSession.websocket (None = 0)
  is_connected,        \* TerminalSession.is_connected
  output_buffer,       \* TerminalSession.output_buffer: sequence of chunks
  output_buffer_size,  \* TerminalSession.output_buffer_size
  pty,                 \* the session's PTY: "none", "alive", "exited", "closed"
  sock,                \* per socket: 0 while open, else the code of its first close
  conn,                \* per socket: the /ws endpoint task serving it
  reaper,              \* the _cleanup_loop task
  stopper,             \* the task running SessionRegistry.stop
  hist,                \* history: chunks passed to add_to_buffer since the last clear_buffer
  calls,               \* history: counters of calls (factory, closes by destroy_session, ...),
                       \* and refusal: the error message sent to a socket whose reconnect failed
  now,                 \* asyncio.get_running_loop().time(), in whole seconds
  rate_limiter,        \* a RateLimiter: rate, burst, tokens, last_update
  acquired,            \* history: the acquire calls made on rate_limiter
  ob,                  \* an OutputBuffer: websocket, buffer, flush_task (is _flush_task set), closed
  delayed,             \* the _delayed_flush task: pc, combined, handed
  reader_task,         \* the task that calls OutputBuffer.write: pc, combined, handed
  sent,                \* the frames the transport of ob.websocket has taken, in order
  peer_gone,           \* the client end of ob.websocket is gone: sends raise
  written,             \* history: the chunks passed to write while the buffer was open
  handler,             \* the task running handle_terminal_session: pc, session, skip_buffer,
                       \* buffered, heartbeat (its heartbeat task), waiting_since (when
                       \* its wait_for(receive) began), at_entry (history: the replay
                       \* buffer when the handler looked at it)
  pty_input,           \* the payloads handed to session.pty_manager.write, in order
  received,            \* history: the input messages received, with what became of each
  pty_size,            \* session.pty_manager.cols, rows
  resize_count,        \* history: the resize calls made on session.pty_manager
  last_activity        \* TerminalSession.last_activity of the handler's session, as
                       \* written by the touch() calls of the message handlers

\* created_at is not modelled, and of last_activity only what the message
\* handlers write: touch() only writes last_activity, and with
\* RECONNECT_WINDOW_SECONDS = 0 and SESSION_MAX_DURATION_SECONDS = 0
\* (session.py:28-29) nothing reads either.

vars == << sessions, user_sessions, running, next_id, user_id, websocket,
           is_connected, output_buffer, output_buffer_size, pty, sock, conn,
           reaper, stopper, hist, calls, now, rate_limiter, acquired,
           ob, delayed, reader_task, sent, peer_gone, written,
           handler, pty_input, received, pty_size, resize_count, last_activity >>

sessVars == << user_id, websocket, is_connected >>
bufVars == << output_buffer, output_buffer_size, hist >>
taskVars == << reaper, stopper, running >>
\* the registry, its sessions and its tasks
regVars == << sessions, user_sessions, running, next_id, user_id, websocket,
              is_connected, output_buffer, output_buffer_size, pty, sock, conn,
              reaper, stopper, hist, calls >>
\* what belongs to one run of handle_terminal_session
rateVars == << now, rate_limiter, acquired >>
outVars == << ob, delayed, reader_task, sent, peer_gone, written >>
loopVars == << handler, pty_input, received, pty_size, resize_count, last_activity >>
ioVars == << rateVars, outVars, loopVars >>

(****************************** helpers ************************************)
RECURSIVE SumLen(_)
SumLen(q) == IF q = <<>> THEN 0 ELSE Len(Head(q)) + SumLen(Tail(q))

RECURSIVE Join(_)
Join(q) == IF q = <<>> THEN <<>> ELSE Head(q) \o Join(Tail(q))

Min(S) == CHOOSE x \in S : \A y \in S : x <= y

\* dict.get(user_id, set()) on _user_sessions
GetUserSessions(US, u) == IF u \in DOMAIN US THEN US[u] ELSE {}


(************************ TerminalSession: replay buffer ********************)
\* a test that only sees the sequence at the start of the chunk
StartsWithClear(data) ==
  Len(data) >= Len(ED2) /\ SubSeq(data, 1, Len(ED2)) = ED2

\* b"\x1b[2J" in data (session.py:57): substring search
ContainsClear(data) ==
  \E i \in 1..Len(data) : i + Len(ED2) - 1 <= Len(data)
                          /\ SubSeq(data, i, i + Len(ED2) - 1) = ED2

\* a buffer that is never trimmed
Untrimmed(b) == b

\* the trimming loop of add_to_buffer; b = [q |-> chunks, n |-> running size]
RECURSIVE TrimBuffer(_)
TrimBuffer(b) ==
  IF b.n > OUTPUT_BUFFER_MAX_BYTES /\ b.q # <<>>
  THEN TrimBuffer([q |-> Tail(b.q), n |-> b.n - Len(Head(b.q))])
  ELSE b

\* the buffer after data has been appended: the increment of the running size
AppendChunk(b, data) == [q |-> Append(b.q, data), n |-> b.n + Len(data)]

\* what clear() leaves: both the deque and the running size
ClearedBuffer == [q |-> <<>>, n |-> 0]

\* an add_to_buffer that never clears
BufferAfterAddKeepsAll(b, data) == TrimBuffer(AppendChunk(b, data))

\* TerminalSession.add_to_buffer, as a function of the buffer
BufferAfterAdd(b, data) ==
  TrimBuffer(AppendChunk(IF ContainsClear(data) THEN ClearedBuffer ELSE b, data))

BufferOf(s) == [q |-> output_buffer[s], n |-> output_buffer_size[s]]

add_to_buffer(s, data) ==
  LET b == BufferAfterAdd(BufferOf(s), data) IN
  /\ output_buffer' = [output_buffer EXCEPT ![s] = b.q]
  /\ output_buffer_size' = [output_buffer_size EXCEPT ![s] = b.n]
  /\ hist' = [hist EXCEPT ![s] = Append(@, data)]

clear_buffer(s) ==
  /\ output_buffer' = [output_buffer EXCEPT ![s] = ClearedBuffer.q]
  /\ output_buffer_size' = [output_buffer_size EXCEPT ![s] = ClearedBuffer.n]
  /\ hist' = [hist EXCEPT ![s] = <<>>]

\* TerminalSession.get_buffered_output
get_buffered_output(s) == Join(output_buffer[s])

(****************************** PTY and sockets *****************************)
\* pty_manager.is_alive(): spawned, not exited, not closed
is_alive(P, s) == P[s] = "alive"

\* pty_manager.close(): idempotent
PtyClosed(P, s) == [P EXCEPT ![s] = "closed"]

\* websocket.close(code) requested on socket k: the first close is the one the
\* peer sees; a later one raises and the registry suppresses it
CloseSocket(K, k, code) == IF K[k] = 0 THEN [K EXCEPT ![k] = code] ELSE K

(***************************** SessionRegistry ******************************)
\* The state destroy_session works on, threaded through the loops that call it.
Reg == [sessions |-> sessions, user_sessions |-> user_sessions,
        pty |-> pty, sock |-> sock, calls |-> calls]

\* a destroy_session without its early return
SessionNeverMissing(R, s) == FALSE

\* destroy_session: self._sessions.pop(session_id, None) found nothing
SessionMissing(R, s) == s \notin R.sessions

\* an index that keeps the entry of a user whose last session went away
IndexWithoutPruning(US, u, s) ==
  IF u \in DOMAIN US THEN [US EXCEPT ![u] = @ \ {s}] ELSE US

\* destroy_session: the user index without s, the user's entry dropped when empty
IndexWithout(US, u, s) ==
  LET left == GetUserSessions(US, u) \ {s} IN
  IF left = {} THEN [x \in DOMAIN US \ {u} |-> US[x]]
  ELSE [US EXCEPT ![u] = left]

\* create_session: setdefault(user_id, set()).add(session_id)
IndexWith(US, u, s) ==
  [x \in DOMAIN US \cup {u} |-> IF x = u THEN GetUserSessions(US, u) \cup {s} ELSE US[x]]

\* a destroy_session that returns without closing the PTY
DestroyTailLeaksPty(R, s) == R

\* destroy_session from "Close PTY" on: what runs once the socket close returned
DestroyTail(R, s) ==
  [R EXCEPT !.pty = PtyClosed(R.pty, s),
            !.calls.pty_close[s] = @ + 1]

\* destroy_session up to its only suspension point, the await of
\* session.websocket.close(): wait = TRUE when it is suspended there
DestroyHead(R, s) ==
  IF SessionMissing(R, s)
  THEN [R |-> [R EXCEPT !.calls.noop = @ + 1], wait |-> FALSE]
  ELSE LET R1 == [R EXCEPT !.sessions = @ \ {s},
                           !.user_sessions = IndexWithout(@, user_id[s], s)]
       IN IF websocket[s] # None
          THEN [R |-> [R1 EXCEPT !.sock = CloseSocket(@, websocket[s], CODE_DEFAULT),
                                 !.calls.ws_close[s] = @ + 1],
                wait |-> TRUE]
          ELSE [R |-> DestroyTail(R1, s), wait |-> FALSE]

SetReg(R) ==
  /\ sessions' = R.sessions
  /\ user_sessions' = R.user_sessions
  /\ pty' = R.pty
  /\ sock' = R.sock
  /\ calls' = R.calls

\* a user-level check that is off by one
UserLimitOffByOne(u) == Cardinality(GetUserSessions(user_sessions, u)) > MAX_SESSIONS_PER_USER

\* create_session: the two capacity checks
UserLimitReached(u) == Cardinality(GetUserSessions(user_sessions, u)) >= MAX_SESSIONS_PER_USER
ServerLimitReached == Cardinality(sessions) >= MAX_TOTAL_SESSIONS

\* the two checks in the other order
CapacityErrorGlobalFirst(u) ==
  IF ServerLimitReached THEN "limit_server"
  ELSE IF UserLimitReached(u) THEN "limit_user"
  ELSE ""

\* the error create_session raises before the factory is called ("" = none)
CapacityError(u) ==
  IF UserLimitReached(u) THEN "limit_user"
  ELSE IF ServerLimitReached THEN "limit_server"
  ELSE ""

\* a reconnect_session that lost its ownership check
OwnershipUnchecked(s, u) == FALSE

\* reconnect_session: the ownership check
OwnershipMismatch(s, u) == user_id[s] # u

\* a reconnect_session that never closes the socket it replaces
NoLiveSocket(s) == FALSE

\* reconnect_session: "if session.websocket and session.is_connected"
HasLiveSocket(s) == websocket[s] # None /\ is_connected[s]

\* a disconnect_session that forgets the flag
DisconnectKeepsFlag(s) ==
  IF s \in sessions
  THEN /\ websocket' = [websocket EXCEPT ![s] = None]
       /\ UNCHANGED is_connected
  ELSE UNCHANGED << websocket, is_connected >>

\* disconnect_session
disconnect_session(s) ==
  IF s \in sessions
  THEN /\ websocket' = [websocket EXCEPT ![s] = None]
       /\ is_connected' = [is_connected EXCEPT ![s] = FALSE]
  ELSE UNCHANGED << websocket, is_connected >>

\* a binding that forgets the flag
BindWithoutFlag(s, k) ==
  /\ websocket' = [websocket EXCEPT ![s] = k]
  /\ UNCHANGED is_connected

\* reconnect_session from "Update session" on; the endpoint after create_session
Bind(s, k) ==
  /\ websocket' = [websocket EXCEPT ![s] = k]
  /\ is_connected' = [is_connected EXCEPT ![s] = TRUE]

(******************************* initial state ******************************)
NewConn == [pc |-> "new", user |-> "", sid |-> None, res |-> "", reader |-> FALSE]

\* No handler has run: no RateLimiter has been constructed.
NoRateLimiter ==
  /\ now = 0
  /\ rate_limiter = [rate |-> 0, burst |-> 0, tokens |-> 0, last_update |-> 0]
  /\ acquired = <<>>

\* a task that does not exist (reader_task = None, _flush_task = None)
NoTask == [pc |-> "none", combined |-> <<>>, handed |-> FALSE]

NoOutputBuffer ==
  /\ ob = [websocket |-> None, buffer |-> <<>>, flush_task |-> FALSE, closed |-> FALSE]
  /\ delayed = NoTask
  /\ reader_task = NoTask
  /\ sent = <<>>
  /\ peer_gone = FALSE
  /\ written = <<>>

\* handle_terminal_session(websocket, session, registry, skip_buffer) at pc:
\* no snapshot taken, no heartbeat task created
NewHandler(pc, s, skip) ==
  [pc |-> pc, session |-> s, skip_buffer |-> skip, buffered |-> <<>>,
   at_entry |-> <<>>, heartbeat |-> "none", waiting_since |-> 0, raised |-> ""]

NoLoop ==
  /\ handler = NewHandler("none", None, FALSE)
  /\ pty_input = <<>>
  /\ received = <<>>
  /\ pty_size = DEFAULT_SIZE
  /\ resize_count = 0
  /\ last_activity = 0

NoHandler == NoRateLimiter /\ NoOutputBuffer /\ NoLoop

\* After SessionRegistry() and start(): no session, the reaper asleep.
InitRegistry ==
  /\ sessions = {}
  /\ user_sessions = << >>
  /\ running = TRUE
  /\ next_id = 1
  /\ user_id = [s \in SessionIds |-> ""]
  /\ websocket = [s \in SessionIds |-> None]
  /\ is_connected = [s \in SessionIds |-> FALSE]
  /\ output_buffer = [s \in SessionIds |-> <<>>]
  /\ output_buffer_size = [s \in SessionIds |-> 0]
  /\ pty = [s \in SessionIds |-> "none"]
  /\ sock = [k \in Sockets |-> 0]
  /\ conn = [k \in Sockets |-> NewConn]
  /\ reaper = [pc |-> "sleep", todo |-> {}, cur |-> None]
  /\ stopper = [pc |-> "idle", todo |-> {}, cur |-> None, ids |-> 0]
  /\ hist = [s \in SessionIds |-> <<>>]
  /\ calls = [factory |-> 0, adds |-> 0, noop |-> 0,
              pty_close |-> [s \in SessionIds |-> 0],
              ws_close |-> [s \in SessionIds |-> 0],
              refusal |-> [k \in Sockets |-> ""]]

Init == InitRegistry /\ NoHandler

(************************ the /ws endpoint, per socket **********************)
\* The identity a connection presents (the cf-access header, app.py:202) is an
\* opaque string: identities that occur nowhere in the state are
\* interchangeable, so a new connection presents one that occurs in the state
\* or the first one that does not.
KnownUsers ==
  {user_id[s] : s \in SessionIds} \cup {conn[k].user : k \in Sockets}

\* Sockets are numbered in the order in which their connections arrive.
NextSocket(k) == k = Min({j \in Sockets : conn[j].pc = "new"})

ConnectingUsers ==
  LET fresh == {i \in 1..Len(UserOrder) : UserOrder[i] \notin KnownUsers} IN
  (Users \cap KnownUsers) \cup (IF fresh = {} THEN {} ELSE {UserOrder[Min(fresh)]})


\* What the endpoint does when the registry gave it no session: the close code
\* it sends (app.py:218-229 and 262-279).
CloseCodeFor(res) ==
  CASE res \in {"unknown", "denied", "dead"} -> CODE_NOT_FOUND
    [] res \in {"limit_user", "limit_server", "no_shell"} -> CODE_LIMIT
    [] OTHER -> CODE_INTERNAL

NOT_FOUND_MESSAGE == "Session not found or unauthorized"

\* an endpoint that tells the client why its reconnect failed
ErrorMessageNaming(res) == res

\* The error message the endpoint sends when reconnect_session returned None
\* (app.py:218-223), whatever made it return None.
ErrorMessageFor(res) == NOT_FOUND_MESSAGE

\* send_json of that message to socket k, recorded
Reported(c, k, res) == [c EXCEPT !.refusal[k] = ErrorMessageFor(res)]

\* The endpoint has returned: only its outcome is kept.
Finished(res) == [pc |-> "done", user |-> "", sid |-> None, res |-> res, reader |-> FALSE]

Refused(k, res) == [conn EXCEPT ![k] = Finished(res)]

Serving(k, u, s) ==
  [conn EXCEPT ![k] = [pc |-> "active", user |-> u, sid |-> s, res |-> "ok", reader |-> TRUE]]

\* The outcomes of the PTY factory: a spawned manager, ValueError (no shell
\* configured), any other exception (the spawn failed).
FactoryOutcomes == {"ok", "no_shell", "spawn_error"}

\* A connection without session_id: create_session, then the endpoint binds the
\* socket (app.py:242-249); no await suspends in between.
CreateSession(k, u) ==
  /\ conn[k].pc = "new" /\ NextSocket(k)
  /\ LET err == CapacityError(u) IN
     IF err # ""
     THEN /\ conn' = Refused(k, err)
          /\ sock' = CloseSocket(sock, k, CloseCodeFor(err))
          /\ UNCHANGED << sessions, user_sessions, next_id, sessVars, pty, calls >>
     ELSE \E out \in FactoryOutcomes :
          /\ calls' = [calls EXCEPT !.factory = @ + 1]
          /\ IF out # "ok"
             THEN /\ conn' = Refused(k, out)
                  /\ sock' = CloseSocket(sock, k, CloseCodeFor(out))
                  /\ UNCHANGED << sessions, user_sessions, next_id, sessVars, pty >>
             ELSE LET s == next_id IN
                  /\ next_id' = next_id + 1
                  /\ pty' = [pty EXCEPT ![s] = "alive"]
                  /\ user_id' = [user_id EXCEPT ![s] = u]
                  /\ sessions' = sessions \cup {s}
                  /\ user_sessions' = IndexWith(user_sessions, u, s)
                  /\ Bind(s, k)
                  /\ conn' = Serving(k, u, s)
                  /\ UNCHANGED sock
  /\ UNCHANGED << bufVars, taskVars >>
  /\ UNCHANGED ioVars

\* A connection with session_id: reconnect_session up to its first suspension.
ReconnectSession(k, u, s) ==
  /\ conn[k].pc = "new" /\ NextSocket(k)
  /\ IF s \notin sessions
     THEN /\ conn' = Refused(k, "unknown")
          /\ sock' = CloseSocket(sock, k, CloseCodeFor("unknown"))
          /\ calls' = Reported(calls, k, "unknown")
          /\ UNCHANGED << sessions, user_sessions, sessVars, pty >>
     ELSE IF OwnershipMismatch(s, u)
     THEN /\ conn' = Refused(k, "denied")
          /\ sock' = CloseSocket(sock, k, CloseCodeFor("denied"))
          /\ calls' = Reported(calls, k, "denied")
          /\ UNCHANGED << sessions, user_sessions, sessVars, pty >>
     ELSE IF ~is_alive(pty, s)
     THEN LET h == DestroyHead(Reg, s) IN
          IF h.wait
          THEN /\ SetReg(h.R)
               /\ conn' = [conn EXCEPT ![k] = [pc |-> "rc_destroy", user |-> u,
                                               sid |-> s, res |-> "", reader |-> FALSE]]
               /\ UNCHANGED sessVars
          ELSE /\ SetReg([h.R EXCEPT !.sock = CloseSocket(@, k, CloseCodeFor("dead")),
                                      !.calls = Reported(@, k, "dead")])
               /\ conn' = Refused(k, "dead")
               /\ UNCHANGED sessVars
     ELSE IF HasLiveSocket(s)
     THEN /\ sock' = CloseSocket(sock, websocket[s], CODE_SUPERSEDED)
          /\ conn' = [conn EXCEPT ![k] = [pc |-> "rc_close", user |-> u,
                                          sid |-> s, res |-> "", reader |-> FALSE]]
          /\ UNCHANGED << sessions, user_sessions, sessVars, pty, calls >>
     ELSE /\ Bind(s, k)
          /\ conn' = Serving(k, u, s)
          /\ UNCHANGED << sessions, user_sessions, user_id, pty, sock, calls >>
  /\ UNCHANGED << next_id, bufVars, taskVars >>
  /\ UNCHANGED ioVars

\* reconnect_session resumes after the close of the previous socket: it binds
\* the new one, whatever happened to the session meanwhile.
ReconnectBind(k) ==
  /\ conn[k].pc = "rc_close"
  /\ Bind(conn[k].sid, k)
  /\ conn' = Serving(k, conn[k].user, conn[k].sid)
  /\ UNCHANGED << sessions, user_sessions, next_id, user_id, pty, sock, calls,
                  bufVars, taskVars >>
  /\ UNCHANGED ioVars

\* reconnect_session resumes inside destroy_session (dead PTY), closes the PTY
\* and returns None; the endpoint closes the new socket with 4004.
ReconnectDestroyed(k) ==
  /\ conn[k].pc = "rc_destroy"
  /\ SetReg([DestroyTail(Reg, conn[k].sid) EXCEPT
               !.sock = CloseSocket(@, k, CloseCodeFor("dead")),
               !.calls = Reported(@, k, "dead")])
  /\ conn' = Refused(k, "dead")
  /\ UNCHANGED << next_id, sessVars, bufVars, taskVars >>
  /\ UNCHANGED ioVars

(************************* handle_terminal_session **************************)
\* read_pty_output, one round: is_connected, is_alive, a non-empty read,
\* add_to_buffer.
PumpRead(k) ==
  /\ conn[k].pc = "active" /\ conn[k].reader
  /\ is_connected[conn[k].sid]
  /\ is_alive(pty, conn[k].sid)
  /\ calls.adds < MaxReads
  /\ \E data \in PtyChunks : add_to_buffer(conn[k].sid, data)
  /\ calls' = [calls EXCEPT !.adds = @ + 1]
  /\ UNCHANGED << sessions, user_sessions, next_id, sessVars, pty, sock, conn, taskVars >>
  /\ UNCHANGED ioVars

\* read_pty_output leaves its loop: "while session.is_connected" is false.
PumpExit(k) ==
  /\ conn[k].pc = "active" /\ conn[k].reader
  /\ ~is_connected[conn[k].sid]
  /\ conn' = [conn EXCEPT ![k].reader = FALSE]
  /\ UNCHANGED << sessions, user_sessions, next_id, sessVars, pty, sock, calls,
                  bufVars, taskVars >>
  /\ UNCHANGED ioVars

\* The message loop ends (disconnect, timeout, transport error): the finally
\* block closes the Output Buffer, cancels the pumps and awaits them.
HandlerEnd(k) ==
  /\ conn[k].pc = "active"
  /\ conn' = [conn EXCEPT ![k].pc = "teardown", ![k].reader = FALSE]
  /\ UNCHANGED << sessions, user_sessions, next_id, sessVars, pty, sock, calls,
                  bufVars, taskVars >>
  /\ UNCHANGED ioVars

\* The finally block resumes: registry.disconnect_session(session.session_id).
HandlerDisconnect(k) ==
  /\ conn[k].pc = "teardown"
  /\ disconnect_session(conn[k].sid)
  /\ conn' = [conn EXCEPT ![k] = Finished(conn[k].res)]
  /\ UNCHANGED << sessions, user_sessions, next_id, user_id, pty, sock, calls,
                  bufVars, taskVars >>
  /\ UNCHANGED ioVars

\* The shell process of a session exits.
PtyExit(s) ==
  /\ pty[s] = "alive"
  /\ pty' = [pty EXCEPT ![s] = "exited"]
  /\ UNCHANGED << sessions, user_sessions, next_id, sessVars, sock, conn, calls,
                  bufVars, taskVars >>
  /\ UNCHANGED ioVars

(******************************** the reaper ********************************)
\* _cleanup_stale_sessions over the snapshot todo, in dict order (the order of
\* creation), until destroy_session suspends or the snapshot is done. Both
\* thresholds are 0, so only the dead-PTY branch can fire.
\* a pass that destroys the first session of the snapshot, dead or alive
\* a pass that stops after the first dead session it has destroyed
ReapFirstOnly(R, todo) ==
  IF todo = {} THEN [R |-> R, cur |-> None, todo |-> {}]
  ELSE LET dead == {s \in todo : ~is_alive(R.pty, s)} IN
       IF dead = {} THEN [R |-> R, cur |-> None, todo |-> {}]
       ELSE LET h == DestroyHead(R, Min(dead)) IN
            IF h.wait THEN [R |-> h.R, cur |-> Min(dead), todo |-> {}]
            ELSE [R |-> h.R, cur |-> None, todo |-> {}]

ReapWithoutLivenessCheck(R, todo) ==
  IF todo = {} THEN [R |-> R, cur |-> None, todo |-> {}]
  ELSE LET s == Min(todo)
           h == DestroyHead(R, s) IN
       IF h.wait THEN [R |-> h.R, cur |-> s, todo |-> todo \ {s}]
       ELSE [R |-> h.R, cur |-> None, todo |-> {}]

RECURSIVE ReapFrom(_, _)
ReapFrom(R, todo) ==
  IF todo = {} THEN [R |-> R, cur |-> None, todo |-> {}]
  ELSE LET s == Min(todo) IN
       IF is_alive(R.pty, s) THEN ReapFrom(R, todo \ {s})
       ELSE LET h == DestroyHead(R, s) IN
            IF h.wait THEN [R |-> h.R, cur |-> s, todo |-> todo \ {s}]
            ELSE ReapFrom(h.R, todo \ {s})

\* stop(): destroy_session for every id of the snapshot
RECURSIVE StopFrom(_, _)
StopFrom(R, todo) ==
  IF todo = {} THEN [R |-> R, cur |-> None, todo |-> {}]
  ELSE LET s == Min(todo)
           h == DestroyHead(R, s) IN
       IF h.wait THEN [R |-> h.R, cur |-> s, todo |-> todo \ {s}]
       ELSE StopFrom(h.R, todo \ {s})

\* The sleep(60) returns: one pass over list(self._sessions.items()).
ReaperPass ==
  /\ reaper.pc = "sleep"
  /\ LET r == ReapFrom(Reg, sessions) IN
     /\ SetReg(r.R)
     /\ reaper' = [pc |-> IF r.cur = None THEN "sleep" ELSE "closing",
                   todo |-> r.todo, cur |-> r.cur]
  /\ UNCHANGED << next_id, sessVars, conn, bufVars, stopper, running >>
  /\ UNCHANGED ioVars

\* The pass resumes after the socket close inside destroy_session.
ReaperResume ==
  /\ reaper.pc = "closing"
  /\ LET r == ReapFrom(DestroyTail(Reg, reaper.cur), reaper.todo) IN
     /\ SetReg(r.R)
     /\ reaper' = [pc |-> IF r.cur = None THEN "sleep" ELSE "closing",
                   todo |-> r.todo, cur |-> r.cur]
  /\ UNCHANGED << next_id, sessVars, conn, bufVars, stopper, running >>
  /\ UNCHANGED ioVars

(********************************** stop() **********************************)
\* stop() up to "await self._cleanup_task": the reaper is cancelled where it
\* is suspended; the CancelledError leaves destroy_session before the PTY close.
\* (stopper.ids keeps the next session id at that moment, for the history:
\* sessions with a later id were created while stop() was running or after it.)
StopBegin ==
  /\ stopper.pc = "idle"
  /\ running' = FALSE
  /\ reaper' = [pc |-> "cancelled", todo |-> {}, cur |-> None]
  /\ stopper' = [stopper EXCEPT !.pc = "join", !.ids = next_id]
  /\ UNCHANGED << sessions, user_sessions, next_id, sessVars, pty, sock, conn,
                  calls, bufVars >>
  /\ UNCHANGED ioVars

\* stop() resumes: the loop over list(self._sessions.keys()).
StopSessions ==
  /\ stopper.pc = "join"
  /\ LET r == StopFrom(Reg, sessions) IN
     /\ SetReg(r.R)
     /\ stopper' = [pc |-> IF r.cur = None THEN "stopped" ELSE "closing",
                    todo |-> r.todo, cur |-> r.cur, ids |-> stopper.ids]
  /\ UNCHANGED << next_id, sessVars, conn, bufVars, reaper, running >>
  /\ UNCHANGED ioVars

StopResume ==
  /\ stopper.pc = "closing"
  /\ LET r == StopFrom(DestroyTail(Reg, stopper.cur), stopper.todo) IN
     /\ SetReg(r.R)
     /\ stopper' = [pc |-> IF r.cur = None THEN "stopped" ELSE "closing",
                    todo |-> r.todo, cur |-> r.cur, ids |-> stopper.ids]
  /\ UNCHANGED << next_id, sessVars, conn, bufVars, reaper, running >>
  /\ UNCHANGED ioVars

Next ==
  \/ \E k \in Sockets, u \in ConnectingUsers : CreateSession(k, u)
  \/ \E k \in Sockets, u \in ConnectingUsers, s \in SessionIds : ReconnectSession(k, u, s)
  \/ \E k \in Sockets : ReconnectBind(k)
  \/ \E k \in Sockets : ReconnectDestroyed(k)
  \/ \E k \in Sockets : PumpRead(k)
  \/ \E k \in Sockets : PumpExit(k)
  \/ \E k \in Sockets : HandlerEnd(k)
  \/ \E k \in Sockets : HandlerDisconnect(k)
  \/ \E s \in SessionIds : PtyExit(s)
  \/ ReaperPass
  \/ ReaperResume
  \/ StopBegin
  \/ StopSessions
  \/ StopResume

Spec == Init /\ [][Next]_vars

\* The same program with the reaper scheduled: the cleanup loop wakes from
\* every sleep and is resumed after every await (the event loop runs every
\* task that is ready), until stop() cancels it.
SpecReaper ==
  /\ Init /\ [][Next]_vars
  /\ WF_vars(ReaperPass) /\ WF_vars(ReaperResume)

(***************** the replay buffer of one TerminalSession ****************)
\* A TerminalSession constructed on its own (a dataclass), driven through
\* add_to_buffer and clear_buffer with chunks of every kind.
BufSession == Min(SessionIds)

BufAdd ==
  /\ calls.adds < MaxAppends
  /\ \E data \in Chunks : add_to_buffer(BufSession, data)
  /\ calls' = [calls EXCEPT !.adds = @ + 1]
  /\ UNCHANGED << sessions, user_sessions, next_id, sessVars, pty, sock, conn, taskVars >>
  /\ UNCHANGED ioVars

BufClear ==
  /\ clear_buffer(BufSession)
  /\ UNCHANGED << sessions, user_sessions, next_id, sessVars, pty, sock, conn, taskVars, calls >>
  /\ UNCHANGED ioVars

NextBuf == BufAdd \/ BufClear

SpecBuf == Init /\ [][NextBuf]_vars

(******************************* RateLimiter ********************************)
\* The loop clock is read in whole seconds, so refills are whole tokens (the
\* code computes them in floating point for any elapsed time).

\* RateLimiter.__init__ at loop time t
NewRateLimiter(rate, burst, t) ==
  [rate |-> rate, burst |-> burst, tokens |-> burst, last_update |-> t]

\* a refill that is not capped at burst
RefillUncapped(L, t) == L.tokens + (t - L.last_update) * L.rate

\* acquire: min(self.burst, self.tokens + elapsed * self.rate)
Refill(L, t) == Min({L.burst, L.tokens + (t - L.last_update) * L.rate})

\* an acquire that admits one token too early
AdmitsOneShort(tokens, n) == tokens + 1 >= n

\* acquire: "if self.tokens >= tokens"
Admits(tokens, n) == tokens >= n

\* RateLimiter.acquire(n) at loop time t: the limiter afterwards and the result
acquire(L, t, n) ==
  LET tokens == Refill(L, t)
      ok == Admits(tokens, n) IN
  [limiter |-> [L EXCEPT !.tokens = IF ok THEN tokens - n ELSE tokens,
                         !.last_update = t],
   ok |-> ok]

(************************ a RateLimiter on its own *************************)
\* The limiter of the specification's example and the default one.
LimiterConfigs ==
  { [rate |-> 100, burst |-> 500], [rate |-> DEFAULT_RATE, burst |-> DEFAULT_BURST] }

\* Token counts asked for: none, one, the example's, more than any burst, and
\* counts around the default burst.
Amounts == {0, 1, 100, 500, 501, DEFAULT_BURST - 1, DEFAULT_BURST, DEFAULT_BURST + 1}

InitRate ==
  /\ InitRegistry /\ NoOutputBuffer /\ NoLoop
  /\ now = 0
  /\ \E c \in LimiterConfigs : rate_limiter = NewRateLimiter(c.rate, c.burst, 0)
  /\ acquired = <<>>

RateAcquire(n) ==
  /\ Len(acquired) < MaxAcquires
  /\ LET a == acquire(rate_limiter, now, n) IN
     /\ rate_limiter' = a.limiter
     /\ acquired' = Append(acquired, [n |-> n, at |-> now, before |-> rate_limiter,
                                      ok |-> a.ok, after |-> a.limiter])
  /\ UNCHANGED << now, regVars, outVars, loopVars >>

\* a second passes on the loop clock; a wait_for(receive) of the message loop
\* does not outlast its timeout (handler.py:136-139)
ClockAdvance ==
  /\ now < MaxNow
  /\ handler.pc = "loop" => now < handler.waiting_since + HEARTBEAT_TIMEOUT_SECONDS
  /\ now' = now + 1
  /\ UNCHANGED << rate_limiter, acquired, regVars, outVars, loopVars >>

NextRate ==
  \/ \E n \in Amounts : RateAcquire(n)
  \/ ClockAdvance

SpecRate == InitRate /\ [][NextRate]_vars

(******************************* OutputBuffer *******************************)
\* The transport takes frames while the server has not closed the socket and
\* the client is there.
CanSend == ob.websocket # None /\ sock[ob.websocket] = 0 /\ ~peer_gone

Frame(type, bytes) == [type |-> type, bytes |-> bytes]

\* How an awaited send on the socket goes. "sent": the transport takes the
\* frame and the call returns without suspending. "queued": the transport
\* takes the frame and the caller is suspended until it drains. "held": the
\* caller is suspended before the transport takes the frame (flow control).
\* "raised": ConnectionError or RuntimeError. A send cancelled while suspended
\* leaves a queued frame with the transport, and a held frame nowhere.
SendOutcomes == IF CanSend THEN {"sent", "queued", "held"} ELSE {"raised"}

Taken(out) == out \in {"sent", "queued"}
Suspends(out) == out \in {"queued", "held"}

\* a task suspended in send_bytes(combined)
Sending(combined, out) == [pc |-> "sending", combined |-> combined, handed |-> out = "queued"]

\* the writer between two write calls
Idle == [pc |-> "idle", combined |-> <<>>, handed |-> FALSE]

\* the frames after a suspended send_bytes has resumed
SentAfterResume(task) ==
  IF ~task.handed /\ CanSend THEN Append(sent, Frame("bytes", task.combined)) ELSE sent

\* task.cancel() on the _delayed_flush task
Cancelled(task) ==
  IF task.pc \in {"sleeping", "sending"} THEN [task EXCEPT !.pc = "cancelling"] ELSE task

\* flush() from "if self.buffer and not self._closed" on, with B buffered
FlushSend(B) ==
  IF B # <<>> /\ ~ob.closed
  THEN \E out \in SendOutcomes :
         /\ ob' = [ob EXCEPT !.buffer = <<>>, !.flush_task = FALSE]
         /\ sent' = IF Taken(out) THEN Append(sent, Frame("bytes", Join(B))) ELSE sent
         /\ reader_task' = IF Suspends(out) THEN Sending(Join(B), out) ELSE Idle
  ELSE /\ ob' = [ob EXCEPT !.buffer = B, !.flush_task = FALSE]
       /\ sent' = sent
       /\ reader_task' = Idle

\* flush() with B buffered: cancel the delayed flush and wait for it to end
\* (a suspension unless it has ended already), then send
Flush(B) ==
  IF ob.flush_task /\ delayed.pc # "done"
  THEN /\ delayed' = Cancelled(delayed)
       /\ ob' = [ob EXCEPT !.buffer = B]
       /\ reader_task' = [Idle EXCEPT !.pc = "flush_wait"]
       /\ sent' = sent
  ELSE /\ delayed' = NoTask
       /\ FlushSend(B)

\* a write that flushes whatever the size
AlwaysImmediate(data) == TRUE

\* write: "if len(data) <= 64"
IsImmediate(data) == Len(data) <= IMMEDIATE_MAX

\* OutputBuffer.write(data), up to its return or its first suspension
Write(data) ==
  IF ob.closed
  THEN UNCHANGED << ob, delayed, reader_task, sent, written >>
  ELSE /\ written' = Append(written, data)
       /\ LET B == Append(ob.buffer, data) IN
          IF IsImmediate(data)
          THEN Flush(B)
          ELSE /\ ob' = [ob EXCEPT !.buffer = B, !.flush_task = TRUE]
               /\ delayed' = IF ob.flush_task THEN delayed
                             ELSE [NoTask EXCEPT !.pc = "sleeping"]
               /\ UNCHANGED << sent, reader_task >>

\* flush() resumes after "await self._flush_task"
WriterFlushResume ==
  /\ reader_task.pc = "flush_wait"
  /\ delayed.pc = "done"
  /\ delayed' = NoTask
  /\ FlushSend(ob.buffer)
  /\ UNCHANGED << written, peer_gone, rateVars, regVars, loopVars >>

\* flush() resumes after its send_bytes (an error is suppressed)
WriterSendResume ==
  /\ reader_task.pc = "sending"
  /\ sent' = SentAfterResume(reader_task)
  /\ reader_task' = Idle
  /\ UNCHANGED << ob, delayed, written, peer_gone, rateVars, regVars, loopVars >>

\* _delayed_flush resumes after its sleep: the flush interval has elapsed
DelayedFlush ==
  /\ delayed.pc = "sleeping"
  /\ IF ob.buffer # <<>> /\ ~ob.closed
     THEN \E out \in SendOutcomes :
            /\ sent' = IF Taken(out) THEN Append(sent, Frame("bytes", Join(ob.buffer)))
                       ELSE sent
            /\ IF Suspends(out)
               THEN /\ delayed' = Sending(Join(ob.buffer), out)
                    /\ ob' = [ob EXCEPT !.buffer = <<>>]
               ELSE /\ delayed' = NoTask
                    /\ ob' = [ob EXCEPT !.buffer = <<>>, !.flush_task = FALSE]
     ELSE /\ delayed' = NoTask
          /\ ob' = [ob EXCEPT !.flush_task = FALSE]
          /\ sent' = sent
  /\ UNCHANGED << reader_task, written, peer_gone, rateVars, regVars, loopVars >>

\* _delayed_flush resumes after its send_bytes and clears _flush_task
DelayedSendResume ==
  /\ delayed.pc = "sending"
  /\ sent' = SentAfterResume(delayed)
  /\ delayed' = NoTask
  /\ ob' = [ob EXCEPT !.flush_task = FALSE]
  /\ UNCHANGED << reader_task, written, peer_gone, rateVars, regVars, loopVars >>

\* _delayed_flush is resumed with CancelledError, in its sleep or in its
\* send_bytes, and ends without touching _flush_task
DelayedCancelled ==
  /\ delayed.pc = "cancelling"
  /\ delayed' = [NoTask EXCEPT !.pc = "done"]
  /\ UNCHANGED << ob, reader_task, sent, written, peer_gone, rateVars, regVars, loopVars >>

\* OutputBuffer.close()
close ==
  /\ ob' = [ob EXCEPT !.closed = TRUE]
  /\ delayed' = IF ob.flush_task THEN Cancelled(delayed) ELSE delayed

(************************ an OutputBuffer on its own ***********************)
\* The n-th chunk written: size bytes, all of value n.
Chunk(n, size) == [j \in 1..size |-> n]

WriteSizes == {1, IMMEDIATE_MAX, IMMEDIATE_MAX + 1, IMMEDIATE_MAX + 2}

\* OutputBuffer(websocket) on the open socket of a connection, and its writer.
InitOut ==
  /\ InitRegistry /\ NoRateLimiter /\ NoLoop
  /\ ob = [websocket |-> Min(Sockets), buffer |-> <<>>, flush_task |-> FALSE,
           closed |-> FALSE]
  /\ delayed = NoTask
  /\ reader_task = Idle
  /\ sent = <<>>
  /\ peer_gone = FALSE
  /\ written = <<>>

OutWrite(size) ==
  /\ reader_task.pc = "idle"
  /\ Len(written) < MaxWrites
  /\ Write(Chunk(Len(written) + 1, size))
  /\ UNCHANGED << peer_gone, rateVars, regVars, loopVars >>

OutFlush ==
  /\ reader_task.pc = "idle"
  /\ Flush(ob.buffer)
  /\ UNCHANGED << written, peer_gone, rateVars, regVars, loopVars >>

OutClose ==
  /\ ~ob.closed
  /\ close
  /\ UNCHANGED << reader_task, sent, written, peer_gone, rateVars, regVars, loopVars >>

\* the client goes away
PeerLeaves ==
  /\ ~peer_gone
  /\ peer_gone' = TRUE
  /\ UNCHANGED << ob, delayed, reader_task, sent, written, rateVars, regVars, loopVars >>

NextOut ==
  \/ \E size \in WriteSizes : OutWrite(size)
  \/ OutFlush
  \/ WriterFlushResume
  \/ WriterSendResume
  \/ DelayedFlush
  \/ DelayedSendResume
  \/ DelayedCancelled
  \/ OutClose
  \/ PeerLeaves

SpecOut == InitOut /\ [][NextOut]_vars

(******************** input: the socket-to-PTY direction *******************)
ERROR_TOO_LARGE == "error: Input too large"
ERROR_RATE_LIMIT == "error: Rate limit exceeded"

\* "len(...) > ctx.max_input_size"
TooLarge(n) == n > MAX_INPUT_SIZE

\* a binary path without its size validation
BinaryInputUnvalidated(bytes, L, t) ==
  LET a == acquire(L, t, Len(bytes)) IN
  IF ~a.ok
  THEN [outcome |-> "rate_limited", limiter |-> a.limiter, error |-> ERROR_RATE_LIMIT]
  ELSE [outcome |-> "written", limiter |-> a.limiter, error |-> ""]

\* _handle_binary_input(ctx, input_bytes) at loop time t with limiter L: what
\* becomes of the frame, the limiter afterwards, the error message sent
BinaryInput(bytes, L, t) ==
  IF TooLarge(Len(bytes))
  THEN [outcome |-> "too_large", limiter |-> L, error |-> ERROR_TOO_LARGE]
  ELSE LET a == acquire(L, t, Len(bytes)) IN
       IF ~a.ok
       THEN [outcome |-> "rate_limited", limiter |-> a.limiter, error |-> ERROR_RATE_LIMIT]
       ELSE [outcome |-> "written", limiter |-> a.limiter, error |-> ""]

\* str.encode("utf-8") of one code point (no surrogates among Chars)
Utf8(c) ==
  IF c < 128 THEN << c >>
  ELSE IF c < 2048 THEN << 192 + (c \div 64), 128 + (c % 64) >>
  ELSE IF c < 65536
       THEN << 224 + (c \div 4096), 128 + ((c \div 64) % 64), 128 + (c % 64) >>
  ELSE << 240 + (c \div 262144), 128 + ((c \div 4096) % 64),
          128 + ((c \div 64) % 64), 128 + (c % 64) >>

\* data.encode("utf-8"), data a sequence of code points
RECURSIVE Encode(_)
Encode(data) == IF data = <<>> THEN <<>> ELSE Utf8(Head(data)) \o Encode(Tail(data))

\* handle_input(ctx, msg) with msg["data"] = data (a str)
JsonInput(data, L, t) ==
  IF TooLarge(Len(data))
  THEN [outcome |-> "too_large", limiter |-> L, error |-> ERROR_TOO_LARGE]
  ELSE IF data = <<>>
  THEN [outcome |-> "empty", limiter |-> L, error |-> ""]
  ELSE LET a == acquire(L, t, Len(Encode(data))) IN
       IF a.ok
       THEN [outcome |-> "written", limiter |-> a.limiter, error |-> ""]
       ELSE [outcome |-> "rate_limited", limiter |-> a.limiter, error |-> ""]

\* a loop whose receive timeout only restarts when a pong arrives
RestartsOnPongOnly(kind) == kind = "pong"

\* "while True: message = await wait_for(websocket.receive(), timeout=...)":
\* every message received, of whatever kind, is followed by a new wait_for
RestartsTimeout(kind) == TRUE

\* the handler back at its wait_for after a message of this kind
Rewait(h, kind) == [h EXCEPT !.waiting_since = IF RestartsTimeout(kind) THEN now ELSE @]

\* The message loop handles one input message to the end: the limiter is
\* charged, the payload goes to pty_manager.write or an error goes to the
\* client; a send that raises ends the loop (handler.py:181).
HandleInput(kind, bytes, chars, d) ==
  /\ rate_limiter' = d.limiter
  /\ pty_input' = IF d.outcome = "written" THEN Append(pty_input, bytes) ELSE pty_input
  /\ IF d.error = "" THEN handler' = Rewait(handler, kind) /\ UNCHANGED sent
     ELSE IF CanSend
     THEN sent' = Append(sent, Frame(d.error, <<>>)) /\ handler' = Rewait(handler, kind)
     ELSE handler' = [handler EXCEPT !.pc = "finally"] /\ UNCHANGED sent
  /\ received' = Append(received, [kind |-> kind, bytes |-> bytes, chars |-> chars,
                                    at |-> now, before |-> rate_limiter,
                                    size |-> <<>>, outcome |-> d.outcome])
  /\ last_activity' = IF d.outcome = "written" THEN now ELSE last_activity
  /\ UNCHANGED << now, acquired, ob, delayed, reader_task, peer_gone, written, regVars,
                  pty_size, resize_count >>

(***************** the message loop of one connection **********************)
\* Code points a client types: "A" (one byte in UTF-8) and e-acute (two).
Chars == {65, 233}

\* msg["data"] of the input messages: up to one character more than the limit
JsonData == { [j \in 1..n |-> c] : n \in 0..(MAX_INPUT_SIZE + 1), c \in Chars }

\* handle_terminal_session in its message loop on the socket that created the
\* session: session_info is sent, the pumps run, nothing is buffered.
InitInput ==
  /\ sessions = {1}
  /\ user_sessions = [u \in {"u1"} |-> {1}]
  /\ running = TRUE
  /\ next_id = 2
  /\ user_id = [s \in SessionIds |-> IF s = 1 THEN "u1" ELSE ""]
  /\ websocket = [s \in SessionIds |-> IF s = 1 THEN 1 ELSE None]
  /\ is_connected = [s \in SessionIds |-> s = 1]
  /\ output_buffer = [s \in SessionIds |-> <<>>]
  /\ output_buffer_size = [s \in SessionIds |-> 0]
  /\ pty = [s \in SessionIds |-> IF s = 1 THEN "alive" ELSE "none"]
  /\ sock = [k \in Sockets |-> 0]
  /\ conn = [k \in Sockets |->
               IF k = 1
               THEN [pc |-> "active", user |-> "u1", sid |-> 1, res |-> "ok",
                     reader |-> TRUE]
               ELSE NewConn]
  /\ reaper = [pc |-> "sleep", todo |-> {}, cur |-> None]
  /\ stopper = [pc |-> "idle", todo |-> {}, cur |-> None, ids |-> 0]
  /\ hist = [s \in SessionIds |-> <<>>]
  /\ calls = [factory |-> 1, adds |-> 0, noop |-> 0,
              pty_close |-> [s \in SessionIds |-> 0],
              ws_close |-> [s \in SessionIds |-> 0],
              refusal |-> [k \in Sockets |-> ""]]
  /\ now = 0
  /\ rate_limiter = NewRateLimiter(DEFAULT_RATE, DEFAULT_BURST, 0)
  /\ acquired = <<>>
  /\ ob = [websocket |-> 1, buffer |-> <<>>, flush_task |-> FALSE, closed |-> FALSE]
  /\ delayed = NoTask
  /\ reader_task = Idle
  /\ sent = << Frame("session_info", <<>>) >>
  /\ peer_gone = FALSE
  /\ written = <<>>
  /\ handler = [NewHandler("loop", 1, FALSE) EXCEPT !.heartbeat = "sleeping"]
  /\ pty_input = <<>>
  /\ received = <<>>
  /\ pty_size = DEFAULT_SIZE
  /\ resize_count = 0
  /\ last_activity = 0

\* websocket.receive() returns a binary frame of n bytes
ReceiveBinary(n) ==
  /\ handler.pc = "loop"
  /\ Len(received) < MaxInputs
  /\ LET bytes == Chunk(Len(received) + 1, n) IN
     HandleInput("binary", bytes, n, BinaryInput(bytes, rate_limiter, now))

\* websocket.receive() returns the text {"type": "input", "data": data}
ReceiveJsonInput(data) ==
  /\ handler.pc = "loop"
  /\ Len(received) < MaxInputs
  /\ HandleInput("json", Encode(data), Len(data), JsonInput(data, rate_limiter, now))

\* message types with a handler: register("resize"), ("pong"), ("input")
Registered == {"resize", "pong", "input"}

\* a dispatch that hands a message without a handler to handle_input
HandlerForOrInput(type) == IF type \in Registered THEN type ELSE "input"

\* dispatch: self._handlers.get(msg.get("type")); "none" for no handler
HandlerFor(type) == IF type \in Registered THEN type ELSE "none"

\* Text frames other than input messages: ok is whether json.loads accepts
\* the text; type "" stands for a message without "type".
TextFrames ==
  { [ok |-> FALSE, type |-> "", data |-> <<65>>, size |-> DEFAULT_SIZE] } \cup
  { [ok |-> TRUE, type |-> type, data |-> <<65>>, size |-> DEFAULT_SIZE] :
      type \in {"bogus", "", "pong"} } \cup
  { [ok |-> TRUE, type |-> "resize", data |-> <<>>, size |-> size] :
      size \in {DEFAULT_SIZE, <<80, 24>>} }

\* what the client sent, for the history
KindOf(f) ==
  IF ~f.ok THEN "malformed" ELSE IF f.type \in Registered THEN f.type ELSE "unknown"

\* SecurePTYManager.resize(cols, rows): the manager applies the geometry to
\* its backend and reports it as its current cols and rows from then on
resize(size) == size

\* a handle_resize that takes no geometry for the current one
GeometryAlwaysNew(size, current) == FALSE

\* handle_resize: "if pty_manager.cols == cols and pty_manager.rows == rows"
GeometryUnchanged(size, current) == size = current

\* a text frame that ends without input handling: JSONDecodeError (logged),
\* no handler (logged), handle_pong, handle_resize
HandleControl(f, h) ==
  /\ IF h = "resize" /\ ~GeometryUnchanged(f.size, pty_size)
     THEN /\ pty_size' = resize(f.size)
          /\ resize_count' = resize_count + 1
     ELSE UNCHANGED << pty_size, resize_count >>
  /\ last_activity' = IF h \in {"resize", "pong"} THEN now ELSE last_activity
  /\ received' = Append(received, [kind |-> KindOf(f), bytes |-> <<>>, chars |-> 0,
                                    at |-> now, before |-> rate_limiter,
                                    size |-> IF h = "resize" THEN f.size ELSE <<>>,
                                    outcome |-> IF h \in {"resize", "pong"} THEN h
                                                ELSE "dropped"])
  /\ handler' = Rewait(handler, KindOf(f))
  /\ UNCHANGED << rateVars, outVars, regVars, pty_input >>

\* websocket.receive() returns a text frame: json.loads, then dispatch
ReceiveText(f) ==
  /\ handler.pc = "loop"
  /\ Len(received) < MaxInputs
  /\ IF ~f.ok THEN HandleControl(f, "malformed")
     ELSE IF HandlerFor(f.type) = "input"
     THEN HandleInput(KindOf(f), Encode(f.data), Len(f.data),
                      JsonInput(f.data, rate_limiter, now))
     ELSE HandleControl(f, HandlerFor(f.type))

\* wait_for raises TimeoutError: no message for HEARTBEAT_TIMEOUT_SECONDS
ReceiveTimeout ==
  /\ handler.pc = "loop"
  /\ now - handler.waiting_since >= HEARTBEAT_TIMEOUT_SECONDS
  /\ handler' = [handler EXCEPT !.pc = "finally"]
  /\ UNCHANGED << outVars, rateVars, regVars, pty_input, received,
                  pty_size, resize_count, last_activity >>

NextInput ==
  \/ \E n \in 0..(MAX_INPUT_SIZE + 1) : ReceiveBinary(n)
  \/ \E data \in JsonData : ReceiveJsonInput(data)
  \/ \E f \in TextFrames : ReceiveText(f)
  \/ ReceiveTimeout
  \/ ClockAdvance
  \/ PeerLeaves

SpecInput == InitInput /\ [][NextInput]_vars

(************ handle_terminal_session: entry, pumps and teardown ***********)
\* a handler that replays whenever the caller did not ask to skip
ReplayUnlessSkipped(skip, buffered) == ~skip

\* "if not skip_buffer: buffered = session.get_buffered_output(); if buffered:"
ReplayWanted(skip, buffered) == ~skip /\ buffered # <<>>

\* a teardown that does not wait for the task it has cancelled
TaskEndedUnawaited(task_pc) == TRUE

\* "await task" returns: the task has ended (or "if task:" found None)
TaskEnded(task_pc) == task_pc \in {"none", "ended"}

\* reader_task = create_task(read_pty_output()), heartbeat_task =
\* create_task(heartbeat_loop()); the handler goes on into its message loop
StartPumps(h) ==
  /\ handler' = [h EXCEPT !.pc = "loop", !.heartbeat = "sleeping", !.waiting_since = now]
  /\ reader_task' = Idle

\* a send by the handler task raised: on to the finally block
Raised(h) ==
  /\ handler' = [h EXCEPT !.pc = "finally"]
  /\ UNCHANGED << sent, reader_task >>

\* await websocket.send_json({"type": "session_info", ...})
SendSessionInfo ==
  /\ handler.pc = "entry"
  /\ IF CanSend
     THEN /\ sent' = Append(sent, Frame("session_info", <<>>))
          /\ handler' = [handler EXCEPT !.pc = "snapshot"]
          /\ UNCHANGED reader_task
     ELSE Raised(handler)
  /\ UNCHANGED << ob, delayed, peer_gone, written, rateVars, regVars, pty_input, received,
                  pty_size, resize_count, last_activity >>

\* From the return of the session_info send: the snapshot of the replay
\* buffer and the clear+home frame, or straight on to the pumps.
SendClearHome ==
  /\ handler.pc = "snapshot"
  /\ LET seen == get_buffered_output(handler.session)
         h == [handler EXCEPT !.at_entry = seen] IN
     IF ReplayWanted(handler.skip_buffer, seen)
     THEN IF CanSend
          THEN /\ sent' = Append(sent, Frame("bytes", CLEAR_HOME))
               /\ handler' = [h EXCEPT !.pc = "replay", !.buffered = seen]
               /\ UNCHANGED reader_task
          ELSE Raised([h EXCEPT !.buffered = seen])
     ELSE StartPumps(h) /\ UNCHANGED sent
  /\ UNCHANGED << ob, delayed, peer_gone, written, rateVars, regVars, pty_input, received,
                  pty_size, resize_count, last_activity >>

\* await websocket.send_bytes(buffered), then the pumps are started
SendReplay ==
  /\ handler.pc = "replay"
  /\ IF CanSend
     THEN /\ sent' = Append(sent, Frame("bytes", handler.buffered))
          /\ StartPumps(handler)
     ELSE Raised(handler)
  /\ UNCHANGED << ob, delayed, peer_gone, written, rateVars, regVars, pty_input, received,
                  pty_size, resize_count, last_activity >>

\* The message loop ends: receive timeout, websocket.disconnect, a
\* WebSocketDisconnect, or a ConnectionError/RuntimeError.
LoopExit ==
  /\ handler.pc = "loop"
  /\ handler' = [handler EXCEPT !.pc = "finally"]
  /\ received' = Append(received, [kind |-> "disconnect", bytes |-> <<>>, chars |-> 0,
                                    at |-> now, before |-> rate_limiter,
                                    size |-> <<>>, outcome |-> "left"])
  /\ UNCHANGED << outVars, rateVars, regVars, pty_input, pty_size, resize_count, last_activity >>

\* task.cancel() on read_pty_output: a CancelledError for a reader asleep or in
\* a send; a reader inside flush(), waiting for the delayed flush it has
\* cancelled, suppresses it (buffer.py:70) and runs on.
CancelReader(task) ==
  IF task.pc \in {"idle", "sending"} THEN [task EXCEPT !.pc = "cancelling"] ELSE task

\* task.cancel() on heartbeat_loop
CancelHeartbeat(hb) == IF hb = "sleeping" THEN "cancelling" ELSE hb

\* finally: output_buffer.close(), reader_task.cancel(), up to "await task"
Teardown ==
  /\ handler.pc = "finally"
  /\ close
  /\ reader_task' = CancelReader(reader_task)
  /\ handler' = [handler EXCEPT !.pc = IF reader_task.pc = "none" THEN "disconnect"
                                       ELSE "await_reader"]
  /\ UNCHANGED << sent, peer_gone, written, rateVars, regVars, pty_input, received,
                  pty_size, resize_count, last_activity >>

\* the except clauses of the endpoint around handle_terminal_session: a
\* ValueError is answered as a refused session, any other exception with the
\* internal-error code
EndpointCloseCode(exc) == IF exc = "ValueError" THEN CODE_LIMIT ELSE CODE_INTERNAL

\* an exception leaves handle_terminal_session from inside its finally block:
\* the rest of the block is skipped and the endpoint closes the socket
Propagate(exc) ==
  /\ handler' = [handler EXCEPT !.pc = "done", !.raised = exc]
  /\ sock' = CloseSocket(sock, ob.websocket, EndpointCloseCode(exc))
  /\ conn' = [conn EXCEPT ![ob.websocket] = Finished("error")]
  /\ UNCHANGED << sessions, user_sessions, next_id, sessVars, pty, calls,
                  bufVars, taskVars >>

\* "await task" on the reader returns; heartbeat_task.cancel(), "await task"
AwaitedReader ==
  /\ handler.pc = "await_reader"
  /\ \/ /\ TaskEnded(reader_task.pc)
        /\ handler' = [handler EXCEPT !.pc = "await_heartbeat",
                                      !.heartbeat = CancelHeartbeat(@)]
        /\ UNCHANGED regVars
     \/ /\ reader_task.pc = "failed"
        /\ Propagate("Exception")
  /\ UNCHANGED << outVars, rateVars, pty_input, received, pty_size, resize_count, last_activity >>

\* "await task" on the heartbeat returns
AwaitedHeartbeat ==
  /\ handler.pc = "await_heartbeat"
  /\ \/ /\ TaskEnded(handler.heartbeat)
        /\ handler' = [handler EXCEPT !.pc = "disconnect"]
        /\ UNCHANGED regVars
     \/ /\ handler.heartbeat = "failed"
        /\ Propagate("Exception")
  /\ UNCHANGED << outVars, rateVars, pty_input, received, pty_size, resize_count, last_activity >>

\* await registry.disconnect_session(session.session_id); the handler and its
\* endpoint return
Disconnect ==
  /\ handler.pc = "disconnect"
  /\ disconnect_session(handler.session)
  /\ handler' = [handler EXCEPT !.pc = "done"]
  /\ conn' = [conn EXCEPT ![ob.websocket] =
                 Finished(IF handler.raised = "" THEN "ok" ELSE "error")]
  /\ sock' = IF handler.raised = "" THEN sock
             ELSE CloseSocket(sock, ob.websocket, EndpointCloseCode(handler.raised))
  /\ UNCHANGED << sessions, user_sessions, next_id, user_id, pty, calls,
                  bufVars, taskVars >>
  /\ UNCHANGED << outVars, rateVars, pty_input, received, pty_size, resize_count, last_activity >>

\* read_pty_output: one turn of its loop that reads data
ReaderRead(size) ==
  /\ reader_task.pc = "idle"
  /\ is_connected[handler.session]
  /\ is_alive(pty, handler.session)
  /\ calls.adds < MaxPumped
  /\ LET data == Chunk(calls.adds + 1, size) IN
     /\ add_to_buffer(handler.session, data)
     /\ Write(data)
  /\ calls' = [calls EXCEPT !.adds = @ + 1]
  /\ UNCHANGED << sessions, user_sessions, next_id, sessVars, pty, sock, conn, taskVars >>
  /\ UNCHANGED << peer_gone, rateVars, loopVars >>

\* read_pty_output: "while session.is_connected" is false
ReaderExit ==
  /\ reader_task.pc = "idle"
  /\ ~is_connected[handler.session]
  /\ reader_task' = [NoTask EXCEPT !.pc = "ended"]
  /\ UNCHANGED << ob, delayed, sent, peer_gone, written, rateVars, regVars, loopVars >>

\* read_pty_output is resumed with CancelledError and ends
ReaderCancelled ==
  /\ reader_task.pc = "cancelling"
  /\ reader_task' = [NoTask EXCEPT !.pc = "ended"]
  /\ UNCHANGED << ob, delayed, sent, peer_gone, written, rateVars, regVars, loopVars >>

IsPing(f) == f.type = "ping"

\* heartbeat_loop wakes from its sleep: a ping, or its end (not connected, or
\* the send raised)
Beat ==
  /\ handler.heartbeat = "sleeping"
  /\ IF is_connected[handler.session] /\ CanSend
     THEN /\ Len(SelectSeq(sent, IsPing)) < MaxPings
          /\ sent' = Append(sent, Frame("ping", <<>>))
          /\ UNCHANGED handler
     ELSE /\ handler' = [handler EXCEPT !.heartbeat = "ended"]
          /\ UNCHANGED sent
  /\ UNCHANGED << ob, delayed, reader_task, peer_gone, written, rateVars, regVars,
                  pty_input, received, pty_size, resize_count, last_activity >>

\* heartbeat_loop is resumed with CancelledError and ends
HeartbeatCancelled ==
  /\ handler.heartbeat = "cancelling"
  /\ handler' = [handler EXCEPT !.heartbeat = "ended"]
  /\ UNCHANGED << outVars, rateVars, regVars, pty_input, received,
                  pty_size, resize_count, last_activity >>

(************* one handler in full among the other connections *************)
ReadSizes == {1, IMMEDIATE_MAX + 1}

\* Replay buffers the handler may find: empty, or one chunk of an earlier pump.
EarlierOutput == { <<>>, << <<65, 66>> >> }

\* Session 1 of user u1 was created and served by socket 1, which has left;
\* socket 2 has reconnected to it (reconnect_session has bound it) and
\* handle_terminal_session is called with either value of skip_buffer.
InitHandler ==
  /\ sessions = {1}
  /\ user_sessions = [u \in {"u1"} |-> {1}]
  /\ running = TRUE
  /\ next_id = 2
  /\ user_id = [s \in SessionIds |-> IF s = 1 THEN "u1" ELSE ""]
  /\ websocket = [s \in SessionIds |-> IF s = 1 THEN 2 ELSE None]
  /\ is_connected = [s \in SessionIds |-> s = 1]
  /\ \E q \in EarlierOutput :
       /\ output_buffer = [s \in SessionIds |-> IF s = 1 THEN q ELSE <<>>]
       /\ output_buffer_size = [s \in SessionIds |-> IF s = 1 THEN SumLen(q) ELSE 0]
       /\ hist = [s \in SessionIds |-> IF s = 1 THEN q ELSE <<>>]
  /\ pty = [s \in SessionIds |-> IF s = 1 THEN "alive" ELSE "none"]
  /\ sock = [k \in Sockets |-> 0]
  /\ conn = [k \in Sockets |->
               IF k = 1 THEN Finished("ok")
               ELSE IF k = 2
               THEN [pc |-> "handler", user |-> "u1", sid |-> 1, res |-> "ok",
                     reader |-> FALSE]
               ELSE NewConn]
  /\ reaper = [pc |-> "sleep", todo |-> {}, cur |-> None]
  /\ stopper = [pc |-> "idle", todo |-> {}, cur |-> None, ids |-> 0]
  /\ calls = [factory |-> 1, adds |-> 0, noop |-> 0,
              pty_close |-> [s \in SessionIds |-> 0],
              ws_close |-> [s \in SessionIds |-> 0],
              refusal |-> [k \in Sockets |-> ""]]
  /\ now = 0
  /\ rate_limiter = NewRateLimiter(DEFAULT_RATE, DEFAULT_BURST, 0)
  /\ acquired = <<>>
  /\ ob = [websocket |-> 2, buffer |-> <<>>, flush_task |-> FALSE, closed |-> FALSE]
  /\ delayed = NoTask
  /\ reader_task = NoTask
  /\ sent = <<>>
  /\ peer_gone = FALSE
  /\ written = <<>>
  /\ \E skip \in BOOLEAN : handler = NewHandler("entry", 1, skip)
  /\ pty_input = <<>>
  /\ received = <<>>
  /\ pty_size = DEFAULT_SIZE
  /\ resize_count = 0
  /\ last_activity = 0

NextHandler ==
  \/ SendSessionInfo
  \/ SendClearHome
  \/ SendReplay
  \/ LoopExit
  \/ Teardown
  \/ AwaitedReader
  \/ AwaitedHeartbeat
  \/ Disconnect
  \/ \E size \in ReadSizes : ReaderRead(size)
  \/ ReaderExit
  \/ ReaderCancelled
  \/ WriterFlushResume
  \/ WriterSendResume
  \/ DelayedFlush
  \/ DelayedSendResume
  \/ DelayedCancelled
  \/ Beat
  \/ HeartbeatCancelled
  \/ PeerLeaves
  \/ \E k \in Sockets : ReconnectSession(k, "u1", handler.session)
  \/ \E k \in Sockets : ReconnectBind(k)
  \/ \E k \in Sockets : ReconnectDestroyed(k)
  \/ \E k \in Sockets : PumpRead(k)
  \/ \E k \in Sockets : PumpExit(k)
  \/ \E k \in Sockets : HandlerEnd(k)
  \/ \E k \in Sockets : HandlerDisconnect(k)
  \/ PtyExit(handler.session)
  \/ ReaperPass
  \/ ReaperResume

SpecHandler == InitHandler /\ [][NextHandler]_vars

(************* one connection: its timers, its pumps and their failures *************)

\* read_pty_output: pty_manager.read raises OSError, which the pump logs before
\* it leaves its loop
ReaderOSError ==
  /\ reader_task.pc = "idle"
  /\ is_connected[handler.session]
  /\ reader_task' = [NoTask EXCEPT !.pc = "ended"]
  /\ UNCHANGED << ob, delayed, sent, peer_gone, written, rateVars, regVars, loopVars >>

\* read_pty_output catches OSError only: any other exception ends the task and
\* is kept in it until the task is awaited
ReaderCrash ==
  /\ reader_task.pc = "idle"
  /\ is_connected[handler.session]
  /\ reader_task' = [NoTask EXCEPT !.pc = "failed"]
  /\ UNCHANGED << ob, delayed, sent, peer_gone, written, rateVars, regVars, loopVars >>

\* heartbeat_loop catches ConnectionError and RuntimeError only
HeartbeatCrash ==
  /\ handler.heartbeat = "sleeping"
  /\ is_connected[handler.session]
  /\ handler' = [handler EXCEPT !.heartbeat = "failed"]
  /\ UNCHANGED << outVars, rateVars, regVars, pty_input, received,
                  pty_size, resize_count, last_activity >>

\* well-formed JSON text frames whose handling raises: text that is no object
\* (an array, a string, a number, null), a resize whose cols is the string
\* "x", an input whose data is a number
RaisingFrames == {"not_object", "resize_not_int", "input_not_str"}

\* what their handling raises: msg.get of what is no dict, int("x"), len(5)
RaisedBy(f) ==
  CASE f = "not_object" -> "AttributeError"
    [] f = "resize_not_int" -> "ValueError"
    [] f = "input_not_str" -> "TypeError"

\* exceptions of a message's handling that no except clause of the handler
\* names
Unclassified == {RaisedBy(f) : f \in RaisingFrames}

\* the main loop is left by such an exception; the finally block runs
ReceiveRaising(f) ==
  /\ handler.pc = "loop"
  /\ Len(received) < MaxInputs
  /\ received' = Append(received, [kind |-> f, bytes |-> <<>>, chars |-> 0,
                                    at |-> now, before |-> rate_limiter,
                                    size |-> <<>>, outcome |-> RaisedBy(f)])
  /\ handler' = [handler EXCEPT !.pc = "finally", !.raised = RaisedBy(f)]
  /\ UNCHANGED << outVars, rateVars, regVars, pty_input, pty_size, resize_count, last_activity >>

NextLive ==
  \/ \E f \in TextFrames : ReceiveText(f)
  \/ \E f \in RaisingFrames : ReceiveRaising(f)
  \/ ReceiveTimeout
  \/ LoopExit
  \/ ClockAdvance
  \/ Beat
  \/ ReaderOSError
  \/ ReaderCrash
  \/ HeartbeatCrash
  \/ Teardown
  \/ ReaderCancelled
  \/ AwaitedReader
  \/ HeartbeatCancelled
  \/ AwaitedHeartbeat
  \/ Disconnect
  \/ PeerLeaves

\* The event loop runs every task that is ready: the handler's own steps and
\* the delivery of a cancellation are taken once they are enabled. What the
\* client, the clock and the PTY do is left open.
SpecLive ==
  /\ InitInput
  /\ [][NextLive]_vars
  /\ WF_vars(Teardown)
  /\ WF_vars(ReaderCancelled)
  /\ WF_vars(AwaitedReader)
  /\ WF_vars(HeartbeatCancelled)
  /\ WF_vars(AwaitedHeartbeat)
  /\ WF_vars(Disconnect)

(***************************************************************************)
(*                       Properties of the rate limiter                    *)
(***************************************************************************)
\* burst=500, rate=100: acquire(500), at once acquire(1), a second later
\* acquire(100)
C13_Example ==
  /\ rate_limiter.rate = 100 /\ rate_limiter.burst = 500
  /\ Len(acquired) = 3
  /\ acquired[1].n = 500 /\ acquired[1].at = 0
  /\ acquired[2].n = 1 /\ acquired[2].at = 0
  /\ acquired[3].n = 100 /\ acquired[3].at = 1

\* C13: every acquire(n) first refills to min(burst, tokens + elapsed * rate)
\* and notes the time; it returns true and takes exactly n tokens when the
\* refilled count is at least n, and returns false and takes none otherwise.
\* tokens stays within 0..burst, and the example of the specification comes
\* out as admitted, rejected, admitted.
C13_AcquireRefillsThenAdmits ==
  /\ 0 <= rate_limiter.tokens /\ rate_limiter.tokens <= rate_limiter.burst
  /\ \A i \in 1..Len(acquired) :
       LET a == acquired[i]
           grown == a.before.tokens + (a.at - a.before.last_update) * a.before.rate
           refilled == IF grown < a.before.burst THEN grown ELSE a.before.burst
       IN /\ a.ok <=> refilled >= a.n
          /\ a.after.tokens = IF refilled >= a.n THEN refilled - a.n ELSE refilled
          /\ a.after.last_update = a.at
          /\ a.after.rate = a.before.rate /\ a.after.burst = a.before.burst
  /\ C13_Example => acquired[1].ok /\ ~acquired[2].ok /\ acquired[3].ok

\* The example has run: the bucket was emptied, refused one token, and a
\* second later gave the hundred it had refilled.
C13_Witness ==
  /\ C13_Example
  /\ acquired[1].after.tokens = 0
  /\ ~acquired[2].ok
  /\ acquired[3].ok /\ rate_limiter.tokens = 0

(***************************************************************************)
(*                      Properties of the output buffer                    *)
(***************************************************************************)
\* the bytes of the frames fs, in order
RECURSIVE FrameBytes(_)
FrameBytes(fs) == IF fs = <<>> THEN <<>> ELSE Head(fs).bytes \o FrameBytes(Tail(fs))

IsPrefix(a, b) == Len(a) <= Len(b) /\ SubSeq(b, 1, Len(a)) = a

\* a step of the writer inside write or flush
WriterStep ==
  \/ \E size \in WriteSizes : OutWrite(size)
  \/ OutFlush
  \/ WriterFlushResume
  \/ WriterSendResume

\* a step of the _delayed_flush task after its sleep
DelayedStep == DelayedFlush \/ DelayedSendResume

\* C14: (a) while the buffer is open and the transport takes frames, a chunk
\* of at most IMMEDIATE_MAX bytes is on the transport when its write call has
\* returned, and no step of that call waits for the flush interval; (b) a
\* write of a larger chunk puts nothing on the transport, and a frame goes out
\* only in a step of a writer's flush or of the delayed flush after its sleep;
\* (c) the delayed flush, once its sleep is over, takes everything queued and
\* sends it as one frame.
C14_SmallAtOnceLargeBatched ==
  /\ [](\A i \in 1..Len(written) :
          (/\ CanSend /\ ~ob.closed
           /\ Len(written[i]) <= IMMEDIATE_MAX
           /\ (i < Len(written) \/ reader_task.pc = "idle"))
          => \E f \in 1..Len(sent) :
               \E j \in 1..Len(sent[f].bytes) : sent[f].bytes[j] = written[i][1])
  /\ [][ /\ (written' # written /\ Len(written'[Len(written')]) > IMMEDIATE_MAX)
             => sent' = sent
         /\ sent' # sent => (WriterStep \/ DelayedStep)
         /\ (DelayedFlush /\ ob.buffer # <<>> /\ ~ob.closed /\ CanSend) =>
              /\ ob'.buffer = <<>>
              /\ \/ sent' = Append(sent, Frame("bytes", Join(ob.buffer)))
                 \/ /\ sent' = sent
                    /\ delayed'.pc = "sending" /\ ~delayed'.handed
                    /\ delayed'.combined = Join(ob.buffer)
         /\ (DelayedSendResume /\ ~delayed.handed /\ CanSend) =>
              sent' = Append(sent, Frame("bytes", delayed.combined)) ]_vars

\* Two large chunks went out in one frame after the flush interval, and a
\* small chunk written after them went out on its own.
C14_Witness ==
  /\ Len(written) = 3 /\ Len(sent) = 2
  /\ Len(written[1]) > IMMEDIATE_MAX /\ Len(written[2]) > IMMEDIATE_MAX
  /\ Len(written[3]) <= IMMEDIATE_MAX
  /\ sent[1].bytes = written[1] \o written[2]
  /\ sent[2].bytes = written[3]
  /\ reader_task.pc = "idle" /\ delayed.pc = "none"

\* C15: the bytes of the frames sent are a prefix of the bytes of the chunks
\* written, in write order.
C15_FramesArePrefixOfWrites ==
  IsPrefix(FrameBytes(sent), Join(written))

(***************************************************************************)
(*                   Properties of a reconnect that fails                  *)
(***************************************************************************)
\* why reconnect_session returned None: no such session, another user's
\* session, the caller's own session with a dead PTY
Refusals == {"unknown", "denied", "dead"}

\* C22: a connection whose reconnect failed, for whichever of the three
\* reasons, was sent the one error message and closed with 4004, so any two
\* such connections got the same response; no handler is ever started for it.
C22_RefusalsIndistinguishable ==
  /\ [](\A k \in Sockets :
          conn[k].res \in Refusals =>
            /\ calls.refusal[k] = "Session not found or unauthorized"
            /\ sock[k] = CODE_NOT_FOUND
            /\ conn[k].pc = "done" /\ ~conn[k].reader)
  /\ [][\A k \in Sockets :
          (conn'[k].res \in Refusals /\ conn[k].res \notin Refusals) =>
            conn[k].pc \in {"new", "rc_destroy"}]_vars

\* Two reconnects have failed for two different reasons.
C22_Witness ==
  \E k1, k2 \in Sockets :
    /\ conn[k1].res = "denied" /\ conn[k2].res = "dead"
    /\ calls.refusal[k1] = calls.refusal[k2] /\ sock[k1] = sock[k2]

(***************************************************************************)
(*                  Properties of a reconnect that succeeds                *)
(***************************************************************************)
\* the replay buffer of s is the same after the step
BufferKept(s) ==
  /\ output_buffer'[s] = output_buffer[s]
  /\ output_buffer_size'[s] = output_buffer_size[s]

\* the step closes socket k with the given code, unless it was closed before
ClosesWith(k, code) == sock' = [sock EXCEPT ![k] = IF @ = 0 THEN code ELSE @]

\* C23: reconnect_session on a session of the caller with a live PTY. If no
\* socket is bound and connected it binds the new socket at once and closes
\* nothing; otherwise it first closes the bound socket with 4000, binding
\* nothing yet, and whatever the close did, its next step binds the new
\* socket. The session is the one asked for, it ends up bound to the new
\* socket with is_connected true, and no step of it changes the replay buffer.
C23_ReconnectRebinds ==
  [][\A k \in Sockets :
       LET s == conn'[k].sid IN
       /\ (conn[k].pc = "new" /\ conn'[k].pc = "active" /\ s \in sessions) =>
            /\ user_id[s] = conn'[k].user /\ pty[s] = "alive"
            /\ ~(websocket[s] # None /\ is_connected[s])
            /\ sock' = sock
            /\ websocket'[s] = k /\ is_connected'[s]
            /\ BufferKept(s)
       /\ (conn[k].pc = "new" /\ conn'[k].pc = "rc_close") =>
            /\ user_id[s] = conn'[k].user /\ pty[s] = "alive"
            /\ websocket[s] # None /\ is_connected[s]
            /\ ClosesWith(websocket[s], CODE_SUPERSEDED)
            /\ websocket' = websocket /\ is_connected' = is_connected
            /\ BufferKept(s)
       /\ (conn[k].pc = "rc_close" /\ conn'[k] # conn[k]) =>
            /\ conn'[k].pc = "active" /\ s = conn[k].sid
            /\ sock' = sock
            /\ websocket'[s] = k /\ is_connected'[s]
            /\ BufferKept(s)]_vars

\* A reconnect has replaced a connected socket: the old one is closed with
\* 4000, the new one is bound, the replay buffer holds output.
C23_Witness ==
  \E k \in Sockets, j \in Sockets :
    /\ j < k /\ sock[j] = CODE_SUPERSEDED
    /\ conn[k].pc = "active" /\ conn[k].sid \in sessions
    /\ websocket[conn[k].sid] = k /\ is_connected[conn[k].sid]
    /\ output_buffer[conn[k].sid] # <<>>

(***************************************************************************)
(*                         Properties of the reaper                        *)
(***************************************************************************)
\* the sessions a step of the reaper has examined: all it had before it, or,
\* when the step ends in the await of a socket close, those up to the one
\* being closed (sessions are examined in the order of their creation)
Examined(before) ==
  IF reaper'.pc = "closing" THEN {s \in before : s <= reaper'.cur} ELSE before

ReaperDestroysDead(before) ==
  /\ \A s \in Examined(before) \cap sessions :
       pty[s] # "alive" =>
         /\ s \notin sessions'
         /\ \A u \in DOMAIN user_sessions' : s \notin user_sessions'[u]
         /\ websocket[s] # None => sock'[websocket[s]] # 0
         /\ pty'[s] = "closed" \/ (reaper'.pc = "closing" /\ reaper'.cur = s)
  /\ calls'.factory = calls.factory
  /\ \A s \in SessionIds : pty[s] # "alive" => pty'[s] # "alive"

\* C24: a step of the reaper removes every session it has examined whose PTY
\* is not alive from both mappings, closes its bound socket and closes its
\* PTY (after the close of the socket has returned), and starts no PTY; and
\* with the reaper scheduled and for as long as stop() has not cancelled it,
\* a registered session whose PTY is not alive is eventually unregistered,
\* and the step that unregisters it, whoever takes it, closes the socket
\* bound to it.
C24_ReaperRemovesDeadSessions ==
  /\ [][/\ ReaperPass => ReaperDestroysDead(sessions)
        /\ ReaperResume =>
             /\ ReaperDestroysDead(reaper.todo)
             /\ pty'[reaper.cur] = "closed"
        /\ \A s \in sessions \ sessions' :
             websocket[s] # None => sock'[websocket[s]] # 0]_vars
  /\ \A s \in SessionIds :
       (s \in sessions /\ pty[s] # "alive") ~> (s \notin sessions \/ ~running)

\* The reaper has destroyed a session whose PTY had exited and whose socket
\* was bound: the socket is closed, the PTY is closed, and the registry is
\* still running.
C24_Witness ==
  \E s \in SessionIds :
    /\ s \notin sessions /\ pty[s] = "closed"
    /\ calls.ws_close[s] = 1
    /\ running /\ reaper.pc = "sleep"
    /\ \A k \in Sockets : conn[k].res # "dead"

(***************************************************************************)
(*                        Properties of the input path                     *)
(***************************************************************************)
\* the tokens an acquire finds for the received message e, after its refill
TokensFor(e) ==
  LET grown == e.before.tokens + (e.at - e.before.last_update) * e.before.rate IN
  IF grown < e.before.burst THEN grown ELSE e.before.burst

\* a binary frame with these bytes passes the size check and the rate limiter
BinaryPasses(e) == Len(e.bytes) <= MAX_INPUT_SIZE /\ TokensFor(e) >= Len(e.bytes)

\* e went to the PTY
Passed(e) == IF e.kind = "binary" THEN BinaryPasses(e) ELSE e.outcome = "written"

\* the error message e calls for ("" = none)
ErrorFor(e) ==
  IF e.kind = "binary"
  THEN IF Len(e.bytes) > MAX_INPUT_SIZE THEN ERROR_TOO_LARGE
       ELSE IF TokensFor(e) < Len(e.bytes) THEN ERROR_RATE_LIMIT
       ELSE ""
  ELSE IF e.outcome = "too_large" THEN ERROR_TOO_LARGE ELSE ""

CallsForError(e) == ErrorFor(e) # ""

IsError(f) == f.type \in {ERROR_TOO_LARGE, ERROR_RATE_LIMIT}

\* C19: pty_manager.write has been called with exactly the binary frames that
\* passed the size check and the rate limiter (and the JSON inputs written),
\* once each, in the order received: a rejected frame is never written. While
\* the socket takes frames, the error messages sent are one per rejected
\* frame, in order and of the matching type, and the message loop goes on: it
\* ends only when no frame has arrived for the receive timeout.
C19_RejectedInputDroppedAndReported ==
  /\ pty_input = [i \in 1..Len(SelectSeq(received, Passed)) |->
                    SelectSeq(received, Passed)[i].bytes]
  /\ CanSend =>
       /\ \/ handler.pc = "loop"
          \/ now - handler.waiting_since >= HEARTBEAT_TIMEOUT_SECONDS
       /\ SelectSeq(sent, IsError) =
            [i \in 1..Len(SelectSeq(received, CallsForError)) |->
               Frame(ErrorFor(SelectSeq(received, CallsForError)[i]), <<>>)]

\* An oversize frame and a frame the limiter refused were reported, and the
\* frame after them was written.
C19_Witness ==
  /\ Len(received) = 3
  /\ \A i \in 1..3 : received[i].kind = "binary"
  /\ received[1].outcome = "too_large"
  /\ received[2].outcome = "rate_limited"
  /\ received[3].outcome = "written"
  /\ pty_input = << received[3].bytes >>
  /\ Len(sent) = 3 /\ handler.pc = "loop"

\* C20: a JSON input message is rejected exactly when a binary frame with the
\* same bytes would be, at the same limiter state, and while the socket takes
\* frames every rejected input message has its error message.
C20_JsonInputLikeBinary ==
  /\ \A i \in 1..Len(received) :
       received[i].kind = "json" =>
         (received[i].outcome \in {"too_large", "rate_limited"}
            <=> ~BinaryPasses(received[i]))
  /\ CanSend =>
       Len(SelectSeq(sent, IsError)) =
         Cardinality({i \in 1..Len(received) :
                        received[i].outcome \in {"too_large", "rate_limited"}})

EntryFrames ==
  << [type |-> "session_info", bytes |-> <<>>] >> \o
  (IF handler.skip_buffer \/ handler.at_entry = <<>> THEN <<>>
   ELSE << [type |-> "bytes", bytes |-> CLEAR_HOME],
           [type |-> "bytes", bytes |-> handler.at_entry] >>)

PumpsStarted == reader_task.pc # "none" \/ handler.heartbeat # "none"

\* a frame of a pump: a ping, or bytes that were passed to OutputBuffer.write
PumpFrame(f) ==
  \/ f.type = "ping"
  \/ /\ f.type = "bytes" /\ f.bytes # <<>>
     /\ \A j \in 1..Len(f.bytes) :
          \E i \in 1..Len(Join(written)) : f.bytes[j] = Join(written)[i]

\* C16: the frames sent on the socket begin with session_info, followed, iff
\* skip_buffer is false and the replay buffer was non-empty, by clear+home and
\* the snapshot of the buffer verbatim; as long as these are not all sent no
\* other frame is sent, the pumps exist only once they all are, and every
\* later frame is a ping or PTY output of the pump.
C16_EntryFramesBeforePumps ==
  /\ IsPrefix(sent, EntryFrames) \/ IsPrefix(EntryFrames, sent)
  /\ PumpsStarted => IsPrefix(EntryFrames, sent)
  /\ \A i \in (Len(EntryFrames) + 1)..Len(sent) : PumpFrame(sent[i])

\* After a replay (clear+home and the snapshot) a live frame of PTY output and
\* a ping have been sent.
C16_Witness ==
  /\ Len(EntryFrames) = 3
  /\ Len(sent) = 5
  /\ \E i \in 4..5 : sent[i].type = "ping"
  /\ \E i \in 4..5 : sent[i].type = "bytes" /\ sent[i].bytes = Join(written)

\* no connection after the handler's own has bound the session
NotRebound ==
  \A k \in Sockets :
    k > ob.websocket =>
      ~(conn[k].pc \in {"active", "teardown"} \/ (conn[k].pc = "done" /\ conn[k].res = "ok"))

\* C17: when handle_terminal_session has ended, the Output Buffer is closed,
\* both pumps have ended (or were never started), and a session still
\* registered that no newer connection has bound has no socket and is not
\* connected; the call of disconnect_session is the handler's last step and
\* comes after the close and the end of the pumps.
C17_TeardownThenDisconnect ==
  /\ [](handler.pc = "done" =>
          /\ ob.closed
          /\ reader_task.pc \in {"none", "ended"}
          /\ handler.heartbeat \in {"none", "ended"}
          /\ (handler.session \in sessions /\ NotRebound) =>
                (websocket[handler.session] = None /\ ~is_connected[handler.session]))
  /\ [][(handler.pc # "done" /\ handler'.pc = "done") =>
          /\ ob.closed
          /\ reader_task.pc \in {"none", "ended"}
          /\ handler.heartbeat \in {"none", "ended"}
          /\ handler.session \in sessions' =>
                (websocket'[handler.session] = None /\ ~is_connected'[handler.session])]_vars

\* The handler has ended after its pumps ran and wrote, and its session is
\* still registered, unbound.
C17_Witness ==
  /\ handler.pc = "done"
  /\ reader_task.pc = "ended" /\ handler.heartbeat = "ended"
  /\ written # <<>>
  /\ handler.session \in sessions
  /\ websocket[handler.session] = None

(***************************************************************************)
(*                         Properties of the registry                      *)
(***************************************************************************)
\* C1: two reconnects in quick succession. Socket 1 created the only session,
\* was closed by the server and its handler is torn down; the reconnect calls
\* of sockets 2 and 3 (same owner, 3 the later one) have both returned the
\* session and both handlers are still running (neither client went away);
\* the session is registered with a live PTY. Then exactly socket 3 is bound,
\* is_connected is true, and sockets 1 and 2 were closed with the superseded
\* code 4000.
C1_AfterTwoReconnects ==
  /\ next_id = 2 /\ 1 \in sessions /\ is_alive(pty, 1)
  /\ conn[1].pc = "done" /\ conn[1].res = "ok" /\ sock[1] # 0
  /\ conn[2].pc = "active" /\ conn[2].sid = 1
  /\ conn[3].pc = "active" /\ conn[3].sid = 1

C1_OneSocketBoundEarlierSuperseded ==
  C1_AfterTwoReconnects =>
    /\ websocket[1] = 3
    /\ is_connected[1]
    /\ sock[1] = CODE_SUPERSEDED
    /\ sock[2] = CODE_SUPERSEDED

\* C2: a reconnect_session(s, u, k) whose user differs from the session's
\* user_id (s unknown, or owned by someone else with a live or a dead PTY)
\* returns no session and changes nothing of any session: both mappings, the
\* bound sockets, is_connected, the replay buffers and the PTYs stay as they
\* were, and no socket but the refused one is closed.
C2_MismatchNeverReconnects ==
  [][ \A k \in Sockets, u \in Users, s \in SessionIds :
        (ReconnectSession(k, u, s) /\ user_id[s] # u) =>
          /\ conn'[k].pc = "done"
          /\ conn'[k].res \in {"unknown", "denied"}
          /\ UNCHANGED << sessions, user_sessions, websocket, is_connected,
                          output_buffer, output_buffer_size, pty >>
          /\ \A j \in Sockets \ {k} : sock'[j] = sock[j] ]_vars

\* A reconnect was denied for its user, and the only session ever created is
\* still registered, bound to its socket, with its buffer, its PTY dead and
\* not closed.
C2_Witness ==
  /\ next_id = 2 /\ 1 \in sessions
  /\ \E k \in Sockets : conn[k].res = "denied"
  /\ websocket[1] # None /\ is_connected[1]
  /\ output_buffer[1] # <<>>
  /\ pty[1] = "exited"

\* C3: reconnect_session by the owner on a session whose PTY is not alive
\* returns no session; from its first step on the id is in neither mapping,
\* and when the call returns the PTY manager has been closed.
C3_DeadPtyReconnectDestroys ==
  [][ /\ \A k \in Sockets, u \in Users, s \in SessionIds :
           (ReconnectSession(k, u, s) /\ s \in sessions /\ user_id[s] = u
              /\ pty[s] # "alive") =>
             /\ s \notin sessions'
             /\ \A v \in DOMAIN user_sessions' : s \notin user_sessions'[v]
             /\ \/ conn'[k].pc = "rc_destroy" /\ conn'[k].sid = s
                \/ conn'[k].pc = "done" /\ conn'[k].res = "dead" /\ pty'[s] = "closed"
      /\ \A k \in Sockets :
           ReconnectDestroyed(k) =>
             /\ conn'[k].pc = "done" /\ conn'[k].res = "dead"
             /\ conn[k].sid \notin sessions'
             /\ \A v \in DOMAIN user_sessions' : conn[k].sid \notin user_sessions'[v]
             /\ pty'[conn[k].sid] = "closed" ]_vars

\* A reconnect came back "not found" from a dead PTY whose session had a
\* socket bound (so that destroy_session suspended), and the session is gone.
C3_Witness ==
  \E k \in Sockets, s \in SessionIds :
    /\ conn[k].pc = "done" /\ conn[k].res = "dead"
    /\ calls.ws_close[s] = 1 /\ pty[s] = "closed" /\ s \notin sessions

SessionsOf(u) == {s \in sessions : user_id[s] = u}

\* C4: in every reachable state each user holds at most MAX_SESSIONS_PER_USER
\* sessions (in the index and in the primary map) and the registry at most
\* MAX_TOTAL_SESSIONS.
C4_CapacityInvariant ==
  /\ Cardinality(sessions) <= MAX_TOTAL_SESSIONS
  /\ \A u \in Users : Cardinality(SessionsOf(u)) <= MAX_SESSIONS_PER_USER
  /\ \A u \in DOMAIN user_sessions : Cardinality(user_sessions[u]) <= MAX_SESSIONS_PER_USER

\* Both caps are reached and a create_session was turned away.
C4_Witness ==
  /\ Cardinality(sessions) = MAX_TOTAL_SESSIONS
  /\ \E u \in Users : Cardinality(SessionsOf(u)) = MAX_SESSIONS_PER_USER
  /\ \E k \in Sockets : conn[k].res \in {"limit_user", "limit_server"}

\* C5: create_session for a user at MAX_SESSIONS_PER_USER, or with the registry
\* at MAX_TOTAL_SESSIONS, fails with the capacity error (the user-level one
\* when both apply), the PTY factory is not called, no PTY is spawned and both
\* mappings are unchanged.
C5_CapacityErrorBeforeSpawn ==
  [][ \A k \in Sockets, u \in Users :
        LET userFull == Cardinality(SessionsOf(u)) >= MAX_SESSIONS_PER_USER
            serverFull == Cardinality(sessions) >= MAX_TOTAL_SESSIONS
        IN (CreateSession(k, u) /\ (userFull \/ serverFull)) =>
             /\ conn'[k].pc = "done"
             /\ conn'[k].res = IF userFull THEN "limit_user" ELSE "limit_server"
             /\ calls'.factory = calls.factory
             /\ UNCHANGED << sessions, user_sessions, pty, next_id >> ]_vars

\* A create_session failed on the user-level check while the registry was full
\* as well (no session can be created after the last connection).
C5_Witness ==
  /\ conn[MaxSockets].res = "limit_user"
  /\ Cardinality(sessions) = MAX_TOTAL_SESSIONS

\* C6: the user index and the primary map agree, and no user has an empty
\* entry.
C6_IndexAgrees ==
  /\ \A u \in DOMAIN user_sessions :
       user_sessions[u] # {} /\ user_sessions[u] = SessionsOf(u)
  /\ \A s \in sessions : user_id[s] \in DOMAIN user_sessions

\* A PTY factory failed, a session was destroyed, stop() is under way and
\* sessions remain.
C6_Witness ==
  /\ \E k \in Sockets : conn[k].res = "spawn_error"
  /\ \E s \in SessionIds \ sessions : user_id[s] # ""
  /\ stopper.pc = "closing"
  /\ sessions # {}

\* C10: destroy_session of an id that is not registered changes neither
\* mapping, closes no socket and no PTY and does not suspend; and for every
\* session destroy_session has requested the PTY close and the socket close at
\* most once, whoever called it (reaper, reconnect on a dead PTY, stop).
C10_DestroyIdempotent ==
  /\ \A s \in SessionIds \ sessions :
       DestroyHead(Reg, s) = [R |-> [Reg EXCEPT !.calls.noop = @ + 1], wait |-> FALSE]
  /\ \A s \in SessionIds : calls.pty_close[s] <= 1 /\ calls.ws_close[s] <= 1

\* destroy_session was called on an id that another caller had removed, and
\* that session's socket and PTY were closed once.
C10_Witness ==
  /\ calls.noop > 0
  /\ \E s \in SessionIds : calls.pty_close[s] = 1 /\ calls.ws_close[s] = 1

C12_ConnectedIffBound ==
  \A s \in sessions : is_connected[s] <=> websocket[s] # None

\* A session bound by a superseding reconnect next to one that a teardown
\* unbound.
C12_Witness ==
  /\ \E s \in sessions, k \in Sockets :
       websocket[s] = k /\ is_connected[s] /\ conn[k].pc = "active"
       /\ \E j \in Sockets \ {k} : sock[j] = CODE_SUPERSEDED
  /\ \E s \in sessions : websocket[s] = None /\ ~is_connected[s]

\* C18: a step that takes a registered session with a live PTY out of the
\* registry, or closes its PTY, is a step of stop(): no reaper pass, no
\* disconnect_session, no reconnect_session and no step of a handler does it.
\* (No caller in the sources requests destroy_session otherwise.)
C18_LivePtySessionOnlyEndedByStop ==
  [][ \A s \in SessionIds :
        (s \in sessions /\ pty[s] = "alive"
           /\ (s \notin sessions' \/ pty'[s] = "closed"))
          => (StopSessions \/ StopResume) ]_vars

\* The reaper destroyed a session whose PTY had died, in a pass that left
\* alone a disconnected session with a live PTY (no stop() yet, and every
\* connection created a session or reconnected successfully).
C18_Witness ==
  /\ stopper.pc = "idle" /\ reaper.pc = "sleep"
  /\ \A k \in Sockets : conn[k].res = "ok"
  /\ \E s \in sessions : pty[s] = "alive" /\ ~is_connected[s] /\ websocket[s] = None
  /\ \E t \in SessionIds \ sessions : calls.pty_close[t] = 1

(***************************************************************************)
(*                      Properties of the replay buffer                    *)
(***************************************************************************)
\* the chunk holds ESC [ 2 J somewhere
HasEraseDisplay(d) ==
  \E i \in 1..(Len(d) - 3) :
    d[i] = 27 /\ d[i + 1] = 91 /\ d[i + 2] = 50 /\ d[i + 3] = 74

Max(S) == CHOOSE x \in S : \A y \in S : x >= y

LastN(h, n) == SubSeq(h, Len(h) - n + 1, Len(h))

\* the chunks from the last one holding ESC[2J on (all of them if none does)
SinceLastErase(h) ==
  LET at == {i \in 1..Len(h) : HasEraseDisplay(h[i])} IN
  IF at = {} THEN h ELSE SubSeq(h, Max(at), Len(h))

\* the longest suffix of h whose lengths add up to at most the cap
LongestFittingSuffix(h) ==
  LastN(h, Max({n \in 0..Len(h) : SumLen(LastN(h, n)) <= OUTPUT_BUFFER_MAX_BYTES}))

\* C7: after any sequence of add_to_buffer and clear_buffer calls, with chunks
\* of any length, output_buffer_size is at most OUTPUT_BUFFER_MAX_BYTES and is
\* the sum of the lengths of the chunks held.
C7_SizeBoundedAndExact ==
  \A s \in SessionIds :
    /\ output_buffer_size[s] <= OUTPUT_BUFFER_MAX_BYTES
    /\ output_buffer_size[s] = SumLen(output_buffer[s])

\* A chunk longer than the cap was appended after others, and later chunks are
\* held.
C7_Witness ==
  LET h == hist[BufSession] IN
  /\ Len(h) >= 3
  /\ Len(h[2]) > OUTPUT_BUFFER_MAX_BYTES
  /\ output_buffer[BufSession] # <<>>

\* C8: the buffer holds, whole and in arrival order, the longest suffix of the
\* chunks appended since (and including) the last one with ESC[2J that fits
\* the cap, and get_buffered_output is their concatenation.
C8_SnapshotIsLongestSuffix ==
  \A s \in SessionIds :
    LET want == LongestFittingSuffix(SinceLastErase(hist[s])) IN
    /\ output_buffer[s] = want
    /\ get_buffered_output(s) = Join(want)

\* Chunks were trimmed from the front although none since the first held
\* ESC[2J, and an ESC[2J in the middle of a chunk cleared before that.
C8_Witness ==
  LET h == hist[BufSession]
      q == output_buffer[BufSession] IN
  /\ Len(h) = 4
  /\ HasEraseDisplay(h[1]) /\ h[1][1] # 27
  /\ ~HasEraseDisplay(h[2]) /\ ~HasEraseDisplay(h[3]) /\ ~HasEraseDisplay(h[4])
  /\ q # <<>> /\ Len(q) < 4

\* C9: right after add_to_buffer of a chunk that holds ESC[2J and fits the
\* cap, the buffer holds exactly that chunk, the snapshot is that chunk and
\* output_buffer_size is its length, whatever was buffered before.
C9_EraseDisplayDiscardsPrior ==
  \A s \in SessionIds :
    LET h == hist[s] IN
    (h # <<>> /\ HasEraseDisplay(h[Len(h)]) /\ Len(h[Len(h)]) <= OUTPUT_BUFFER_MAX_BYTES) =>
      /\ output_buffer[s] = << h[Len(h)] >>
      /\ get_buffered_output(s) = h[Len(h)]
      /\ output_buffer_size[s] = Len(h[Len(h)])

\* "A" then "ESC[2Jb": the example of the specification.
C9_Witness ==
  /\ hist[BufSession] = << <<65>>, <<27, 91, 50, 74, 98>> >>
  /\ get_buffered_output(BufSession) = <<27, 91, 50, 74, 98>>

(***************************************************************************)
(* C25: the receive timeout                                                *)
(***************************************************************************)

\* when the last inbound frame arrived (the loop was entered at time 0)
LastReceive == IF received = <<>> THEN 0 ELSE received[Len(received)].at

IsPong(r) == r.kind = "pong"

PumpExited == reader_task.pc = "ended" \/ handler.heartbeat = "ended"

\* C26: once a pump has exited while the handler is in its message loop, the
\* teardown is executed, whatever the client does or does not do.
C26_PumpExitStartsTeardown ==
  (handler.pc = "loop" /\ PumpExited) ~> (handler.pc = "done")

(***************************************************************************)
(* C27: unclassified exceptions                                            *)
(***************************************************************************)

\* a task that is still scheduled
Running(task_pc) == task_pc \in {"idle", "sending", "sleeping", "cancelling"}

\* C27: when connection handling has returned after an exception that no
\* except clause of the handler or of a pump names, neither pump is running
\* any more, disconnect_session has unbound the session and the socket is
\* closed with the internal-error code.
C27_UnclassifiedExceptionTearsDown ==
  (handler.pc = "done" /\ handler.raised # "")
    => /\ ~Running(reader_task.pc)
       /\ ~Running(handler.heartbeat)
       /\ ~is_connected[handler.session]
       /\ websocket[handler.session] = None
       /\ sock[ob.websocket] = CODE_INTERNAL

(***************************************************************************)
(* C28: one reader per session                                             *)
(***************************************************************************)

\* the reader of socket k's handler is scheduled and its next loop test
\* "while session.is_connected" succeeds
ReaderActive(k) ==
  /\ conn[k].pc = "active"
  /\ conn[k].reader
  /\ is_connected[conn[k].sid]

\* C28: at most one reader pump is able to read a session's PTY, and every PTY
\* read is made by the reader of the handler whose socket is the one bound to
\* the session: a superseded handler's reader reads no more.
C28_SingleReaderPerSession ==
  /\ [](\A j, k \in Sockets :
          (ReaderActive(j) /\ ReaderActive(k) /\ conn[j].sid = conn[k].sid) => j = k)
  /\ [][\A k \in Sockets : PumpRead(k) => websocket[conn[k].sid] = k]_vars

(***************************************************************************)
(* C29: teardown and the output still queued                               *)
(***************************************************************************)

\* C29: teardown flushes the Output Buffer: when the handler has returned, no
\* chunk that write() accepted is still queued, every one of them went into a
\* send on the socket.
C29_TeardownSendsQueuedOutput ==
  handler.pc = "done" => ob.buffer = <<>>

(***************************************************************************)
(* C30: small chunks and what is queued                                    *)
(***************************************************************************)

\* frame f carries the i-th chunk written (the bytes of chunk i all have
\* value i)
Carries(f, i) == \E j \in 1..Len(sent[f].bytes) : sent[f].bytes[j] = written[i][1]

\* C30: a chunk of at most IMMEDIATE_MAX bytes goes out alone: a frame that
\* carries it is that chunk and nothing else.
C30_SmallChunkUncoalesced ==
  \A i \in 1..Len(written) :
    Len(written[i]) <= IMMEDIATE_MAX =>
      \A f \in 1..Len(sent) : Carries(f, i) => sent[f].bytes = written[i]

(***************************************************************************)
(* C31: what is queued has a flush coming                                  *)
(***************************************************************************)

\* a flush that will take what is queued now: the delayed flush still in its
\* sleep, or a writer's flush() waiting for the cancelled delayed flush
FlushComing == delayed.pc = "sleeping" \/ reader_task.pc = "flush_wait"

\* C31: whenever chunks are queued in an open Output Buffer, a flush that will
\* take them is scheduled or in progress, so they go out without a later
\* write.
C31_QueuedOutputHasFlush ==
  (ob.buffer # <<>> /\ ~ob.closed) => FlushComing

(***************************************************************************)
(* C32: a reconnect against a destroy                                      *)
(***************************************************************************)

\* reconnect_session, resumed after the close of the previous socket, returns
\* its session to the endpoint of socket k, which starts the handler
ReconnectReturns(k) == conn[k].pc = "rc_close" /\ conn'[k].pc = "active"

\* C32: the session reconnect_session returns is, at that moment, in the
\* registry and its PTY has not been closed by the registry.
C32_ReconnectReturnsRegisteredSession ==
  [][\A k \in Sockets :
       ReconnectReturns(k) =>
         /\ conn'[k].sid \in sessions'
         /\ pty'[conn'[k].sid] # "closed"]_vars

(***************************************************************************)
(* C33: no PTY handle leaks                                                *)
(***************************************************************************)

\* a destroy_session(s) is suspended in the close of the session's socket
BeingDestroyed(s) ==
  \/ reaper.pc = "closing" /\ reaper.cur = s
  \/ stopper.pc = "closing" /\ stopper.cur = s
  \/ \E k \in Sockets : conn[k].pc = "rc_destroy" /\ conn[k].sid = s

\* C33: a session that was created and is no longer in the registry has its
\* PTY closed, unless the operation that removed it is still running.
C33_RemovedSessionHasPtyClosed ==
  \A s \in SessionIds :
    (pty[s] # "none" /\ s \notin sessions /\ ~BeingDestroyed(s)) => pty[s] = "closed"

(***************************************************************************)
(* C34: what ends the message loop                                         *)
(***************************************************************************)

\* C34: the message loop is left only by the receive timeout, by a disconnect
\* of the transport or by a transport error; no content of a frame ends it.
C34_FrameContentNeverEndsLoop ==
  [][(handler.pc = "loop" /\ handler'.pc # "loop")
       => (ReceiveTimeout \/ LoopExit \/ ~CanSend)]_vars

(***************************************************************************)
(* C35: the capacity close code                                            *)
(***************************************************************************)

\* create_session refused the connection at one of its two limits
LimitRefusals == {"limit_user", "limit_server"}

\* C35: a socket closed with the capacity code belongs to a connection that
\* create_session refused at a session limit.
C35_CapacityCodeOnlyForLimits ==
  \A k \in Sockets : sock[k] = CODE_LIMIT => conn[k].res \in LimitRefusals

(***************************************************************************)
(* C36: every valid size is admissible                                     *)
(***************************************************************************)

\* the i-th message received found the bucket full: the client had been idle
\* long enough for it to refill completely
BucketFull(i) ==
  Refill(received[i].before, received[i].at) = received[i].before.burst

\* C36: a binary input of at most MAX_INPUT_SIZE bytes that arrives when the
\* bucket has refilled completely is written to the PTY.
C36_ValidSizeAdmittedWhenFull ==
  \A i \in 1..Len(received) :
    (/\ received[i].kind = "binary"
     /\ Len(received[i].bytes) <= MAX_INPUT_SIZE
     /\ BucketFull(i))
    => received[i].outcome = "written"

(***************************************************************************)
(* C37: the registry after stop()                                          *)
(***************************************************************************)

\* stop() returns
StopCompletes == stopper.pc # "stopped" /\ stopper'.pc = "stopped"

\* no create_session has registered a session since stop() was called
NoneCreatedSince == next_id' = stopper.ids

\* C37: when stop() returns and no session was created while it ran, the
\* reaper has ended, both mappings are empty, and of every session there ever
\* was the PTY is closed and the socket still bound to it is closed.
C37_StopLeavesNothing ==
  [][(StopCompletes /\ NoneCreatedSince) =>
       /\ reaper'.pc = "cancelled"
       /\ sessions' = {}
       /\ DOMAIN user_sessions' = {}
       /\ \A s \in SessionIds :
            /\ pty'[s] \in {"none", "closed"}
            /\ websocket'[s] # None => sock'[websocket'[s]] # 0]_vars

(***************************************************************************)
(* C38: resize and the current geometry                                    *)
(***************************************************************************)

\* the resize messages a client sends
ResizeFrames == {f \in TextFrames : f.ok /\ f.type = "resize"}

IsResize(r) == r.kind = "resize"

\* the i-th and the next message received are the same resize message
SameResizeTwice(i) ==
  /\ received[i].kind = "resize" /\ received[i + 1].kind = "resize"
  /\ received[i].size = received[i + 1].size

\* C38: handling a resize message refreshes the session's activity and leaves
\* the PTY with the geometry of the message; it calls resize on the PTY once
\* when that geometry differs from the current one and not at all when it is
\* the same. So once the same resize message has been received twice in a
\* row, the PTY has that geometry and at most one resize call was made for
\* the two (the calls in total are fewer than the resize messages received).
C38_ResizeOnlyOnNewGeometry ==
  /\ [][\A f \in ResizeFrames :
          ReceiveText(f) =>
            /\ last_activity' = now
            /\ pty_size' = f.size
            /\ resize_count' = resize_count + (IF pty_size = f.size THEN 0 ELSE 1)]_vars
  /\ [](\A i \in 1..(Len(received) - 1) :
          (SameResizeTwice(i) /\ i + 1 = Len(received)) =>
            /\ pty_size = received[i].size
            /\ resize_count < Len(SelectSeq(received, IsResize)))

\* the same resize message for a new geometry arrived twice in a row, later
\* than the session's creation, and the PTY was resized once
C38_Witness ==
  /\ Len(received) = 2
  /\ SameResizeTwice(1)
  /\ received[1].size # DEFAULT_SIZE
  /\ resize_count = 1
  /\ last_activity = received[2].at
  /\ received[2].at > received[1].at

(***************************************************************************)
(* C39: nothing runs on after the teardown has closed the Output Buffer    *)
(***************************************************************************)

\* the finally block of the handler has called output_buffer.close()
TeardownClosed == handler.pc \in {"await_reader", "await_heartbeat", "disconnect", "done"}

\* a step in which a frame of the given kind goes out on the handler's socket
Sends(type) == Len(sent') > Len(sent) /\ sent'[Len(sent')].type = type

\* a step in which the handler's read_pty_output reads from the PTY
PtyRead == \E size \in ReadSizes : ReaderRead(size)

\* a step in which input is written to the PTY
PtyWrite == pty_input' # pty_input

\* C39: once the teardown of the handler has called OutputBuffer.close(), no
\* step sends a frame of terminal output on the socket, reads from the PTY,
\* writes to the PTY or sends a ping.
C39_NothingRunsAfterTeardownClose ==
  [][TeardownClosed => ~(Sends("bytes") \/ PtyRead \/ PtyWrite \/ Sends("ping"))]_vars


====
